---- MODULE Spec2Model ----
(***************************************************************************)
(* Tune Trivia: the shared room document, the clients' cached copies of it *)
(* and the handlers of src/App.tsx that write the document.                *)
(*                                                                         *)
(* room       the room document in the realtime store                      *)
(* hostView   gameState of the host's client (its last processed snapshot) *)
(* guestView  for each guest client its gameState: in Spec, SpecSync and   *)
(*            SpecStart the part of it the guest handlers read (the screen *)
(*            it renders and, on the voting screen, the roundId that       *)
(*            submissionKey is given); in SpecLate and SpecStale the whole *)
(*            snapshot                                                     *)
(* scn        progress along the scripted end-to-end scenario (history)    *)
(*            in SpecFair the entries into SCOREBOARD since the round was  *)
(*            entered (history)                                            *)
(* awards     number of score-changing writes since the round was entered  *)
(*            (history)                                                    *)
(*                                                                         *)
(* Handlers are written on room alone; a specification adds to each step   *)
(* which clients have processed the notification of the write:             *)
(*   Spec       the guests' clients may lag, the host's client is current  *)
(*              whenever a handler runs                                    *)
(*   SpecSync   every client is current; guests call the handlers with any *)
(*              song and any target                                        *)
(*   SpecLate   one round with three guests acting through their screens,  *)
(*              one of which may lag                                       *)
(*   SpecStart  the lobby, with every outcome of the question service      *)
(*   SpecView   the derived lists and the scoring over drawn documents,    *)
(*              the host's client lagging                                  *)
(*   SpecGame   whole games up to FINAL, one guest's client lagging        *)
(*   SpecRoster two rounds with joins at any phase and page reloads; the   *)
(*              host's client may miss a roster write; the reloading       *)
(*              client's guestView holds the roster it has read            *)
(*   SpecRoles  every client current and invoking every handler            *)
(*   SpecLobby  SpecStart with the host pressing "start" at every size of  *)
(*              the roster                                                 *)
(*   SpecStale  SpecLate with a second round                               *)
(*   SpecConfig the landing screen before the room exists, on clients      *)
(*              with and without a store                                   *)
(*   SpecHost   the host writes from a cache that follows the room only by *)
(*              notification; the guests are current                       *)
(*   SpecShared SpecRoster with a second tab that shares the stored player *)
(*              id of c                                                    *)
(*   SpecFair   whole games with weak fairness on the host's advances, the *)
(*              guests' actions and the delivery of notifications          *)
(*   SpecSearch the song search; guestView holds the client's search state *)
(*                                                                         *)
(* A Song is represented by its id; a composite key `${rid}:${songId}` by  *)
(* the pair <<rid, songId>> (the string is injective in the pair because   *)
(* the decimal rid contains no ':').                                       *)
(***************************************************************************)
EXTENDS Integers, Sequences, FiniteSets, TLC

VARIABLES room, hostView, guestView, scn, awards

vars == <<room, hostView, guestView, scn, awards>>

\* ---------------------------------------------------------------- bounds
MaxRound == 1
MaxPoints == 1
MaxGuesses == 2
MaxViewLen == 2

\* ------------------------------------------------------------- constants
LastQuestionIndex == 9
PointsPerGuess == 10
MinPlayers == 2

HostId == "h"
Guests == {"a", "b"}
PlayerIds == {HostId} \cup Guests
Songs == {"s1", "s2"}

INITIAL_QUESTIONS == <<"q1", "q2", "q3", "q4", "q5", "q6", "q7", "q8", "q9", "q10">>
GeneratedQuestions == <<"g1", "g2", "g3">>

\* outcomes of generateTriviaQuestions: it catches its own errors and
\* returns [] (a throw reaching startGame is caught there to the same effect)
GenOutcomes == {"fail", "empty", "list"}

\* ---------------------------------------------------------------- helpers
Swap(a, i, j) == [a EXCEPT ![i] = a[j], ![j] = a[i]]

RECURSIVE ShuffleFrom(_, _, _)
ShuffleFrom(a, i, pick) ==
  IF i < 2 THEN a ELSE ShuffleFrom(Swap(a, i, pick[i]), i - 1, pick)

\* Fisher-Yates; pick[i] \in 1..i is the random index drawn at position i
shuffle(arr, pick) == ShuffleFrom(arr, Len(arr), pick)

\* the random draws: at each position either keep it or swap with the first
PickFns(n, S) == [i \in 2..n |-> IF i \in S THEN 1 ELSE i]

submissionKey(songId, rid) == <<rid, songId>>

generateTriviaQuestions(gen) ==
  IF gen = "list" THEN GeneratedQuestions ELSE <<>>

\* ------------------------------------------------------ derived (per view)
roundIdOf(v) == v.roundId

\* (mutant) the current-round list is the whole list
submissions_All(v) == v.submissions

submissions(v) == SelectSeq(v.submissions, LAMBDA s : s.roundId = roundIdOf(v))

guesses(v) == SelectSeq(v.guesses, LAMBDA g : g.roundId = roundIdOf(v))

nonHostPlayers(v) == SelectSeq(v.players, LAMBDA p : ~p.isHost)

\* (mutant) every member of the roster passes for the host
isHost_Any(v, me) == \E i \in 1..Len(v.players) : v.players[i].id = me

isHost(v, me) == \E i \in 1..Len(v.players) : v.players[i].id = me /\ v.players[i].isHost

submittedIds(v) == {submissions(v)[i].playerId : i \in 1..Len(submissions(v))}

remainingPlayers(v) == SelectSeq(nonHostPlayers(v), LAMBDA p : p.id \notin submittedIds(v))

hasSubmitted(v, me) == me # "" /\ me \in submittedIds(v)

mysterySubmissions(v, me) == SelectSeq(submissions(v), LAMBDA s : s.playerId # me)

myGuesses(v, me) == SelectSeq(guesses(v), LAMBDA g : g.voterId = me)

allGuessesCompleted(v, me) ==
  /\ Len(mysterySubmissions(v, me)) > 0
  /\ \A i \in 1..Len(mysterySubmissions(v, me)) :
       \E j \in 1..Len(myGuesses(v, me)) :
          myGuesses(v, me)[j].submissionId
            = submissionKey(mysterySubmissions(v, me)[i].song, roundIdOf(v))

\* "" stands for the undefined song id of a player without a submission
mySongId(v, p) ==
  LET mine == SelectSeq(submissions(v), LAMBDA s : s.playerId = p)
  IN IF Len(mine) = 0 THEN "" ELSE mine[1].song

requiredKeys(v, p) ==
  LET others == SelectSeq(submissions(v), LAMBDA s : s.song # mySongId(v, p))
  IN [i \in 1..Len(others) |-> submissionKey(others[i].song, roundIdOf(v))]

uniqueGuesses(v, p) == {myGuesses(v, p)[j].submissionId : j \in 1..Len(myGuesses(v, p))}

byPlayer(v) ==
  [i \in 1..Len(nonHostPlayers(v)) |->
     LET p == nonHostPlayers(v)[i].id
         done == Len(SelectSeq(requiredKeys(v, p), LAMBDA k : k \in uniqueGuesses(v, p)))
         required == Len(requiredKeys(v, p))
     IN [playerId |-> p, done |-> done, required |-> required,
         ready |-> required > 0 /\ done >= required]]

guessProgress(v) ==
  [byPlayer |-> byPlayer(v),
   allReady |-> \A i \in 1..Len(byPlayer(v)) : byPlayer(v)[i].ready]

\* onValue callback: the snapshot with malformed entries dropped
Sanitise(data) ==
  [data EXCEPT
     !.submissions = SelectSeq(data.submissions, LAMBDA s : s.playerId # "" /\ s.song # ""),
     !.guesses = SelectSeq(data.guesses,
                   LAMBDA g : g.voterId # "" /\ g.submissionId # <<>> /\ g.targetPlayerId # ""),
     !.questions = IF Len(data.questions) > 0 THEN data.questions ELSE INITIAL_QUESTIONS]

NotJoined == [phase |-> "NONE", roundId |-> 0]

\* what a guest's handlers read of a snapshot
GuestCache(data) ==
  IF data.phase = "SUBMITTING" THEN [phase |-> "SUBMITTING", roundId |-> 0]
  ELSE IF data.phase = "VOTING" THEN [phase |-> "VOTING", roundId |-> roundIdOf(data)]
  ELSE [phase |-> "IDLE", roundId |-> 0]

\* ------------------------------------------------------------------- Init
host == [id |-> HostId, score |-> 0, isHost |-> TRUE]

initialGame ==
  [phase |-> "LOBBY",
   currentQuestionIndex |-> 0,
   questions |-> INITIAL_QUESTIONS,
   players |-> <<host>>,
   submissions |-> <<>>,
   guesses |-> <<>>,
   currentRevealIndex |-> 0,
   roundId |-> 0]

\* createRoom has run: the document exists and the host's client holds it
Init ==
  /\ room = initialGame
  /\ hostView = initialGame
  /\ guestView = [g \in Guests |-> NotJoined]
  /\ scn = 0
  /\ awards = 0

\* --------------------------------------------------------------- handlers
\* subscription callback of the host's client
NotifyHost ==
  /\ hostView # Sanitise(room)
  /\ hostView' = Sanitise(room)
  /\ UNCHANGED <<room, guestView>>

\* subscription callback of a guest's client
NotifyGuest(g) ==
  /\ guestView[g] # NotJoined
  /\ guestView[g] # GuestCache(Sanitise(room))
  /\ guestView' = [guestView EXCEPT ![g] = GuestCache(Sanitise(room))]
  /\ UNCHANGED <<room, hostView>>

joinRoom(g) ==
  /\ guestView[g] = NotJoined
  /\ LET newPlayer == [id |-> g, score |-> 0, isHost |-> FALSE]
     IN room' = IF \E i \in 1..Len(room.players) : room.players[i].id = g
                THEN room
                ELSE [room EXCEPT !.players = Append(@, newPlayer)]

\* (mutant) the generated list is used as it comes, empty or not
startGame_NoFallback(me, v, gen, pick) ==
  /\ isHost(v, me)
  /\ v.phase = "LOBBY"
  /\ Len(nonHostPlayers(v)) >= MinPlayers
  /\ room' = [room EXCEPT !.questions = shuffle(generateTriviaQuestions(gen), pick),
                          !.currentQuestionIndex = 0,
                          !.roundId = 0,
                          !.phase = "PROMPT",
                          !.submissions = <<>>,
                          !.guesses = <<>>,
                          !.currentRevealIndex = 0]

\* (mutant) startGame without the count of the players
startGame_NoMinimum(me, v, gen, pick) ==
  /\ isHost(v, me)
  /\ v.phase = "LOBBY"
  /\ LET generated == generateTriviaQuestions(gen)
         questions == IF Len(generated) > 0 THEN generated ELSE INITIAL_QUESTIONS
     IN room' = [room EXCEPT !.questions = shuffle(questions, pick),
                             !.currentQuestionIndex = 0,
                             !.roundId = 0,
                             !.phase = "PROMPT",
                             !.submissions = <<>>,
                             !.guesses = <<>>,
                             !.currentRevealIndex = 0]

startGame(me, v, gen, pick) ==
  /\ isHost(v, me)
  /\ v.phase = "LOBBY"
  /\ Len(nonHostPlayers(v)) >= MinPlayers
  /\ LET generated == generateTriviaQuestions(gen)
         questions == IF Len(generated) > 0 THEN generated ELSE INITIAL_QUESTIONS
     IN room' = [room EXCEPT !.questions = shuffle(questions, pick),
                             !.currentQuestionIndex = 0,
                             !.roundId = 0,
                             !.phase = "PROMPT",
                             !.submissions = <<>>,
                             !.guesses = <<>>,
                             !.currentRevealIndex = 0]

openSubmissions(me, v) ==
  /\ isHost(v, me)
  /\ v.phase = "PROMPT"
  /\ room' = [room EXCEPT !.phase = "SUBMITTING",
                          !.submissions = <<>>,
                          !.guesses = <<>>,
                          !.currentRevealIndex = 0,
                          !.roundId = roundIdOf(v)]

\* (mutant) the transaction appends without looking for an earlier entry
submitSongTxn_NoCheck(doc, currentPlayerId, song) ==
  LET rid == doc.roundId
      playingPlayers == SelectSeq(doc.players, LAMBDA p : ~p.isHost)
      pushed == Append(doc.submissions,
                       [playerId |-> currentPlayerId, song |-> song, roundId |-> rid])
      newCount == Len(SelectSeq(pushed, LAMBDA s : s.roundId = rid))
  IN IF newCount >= Len(playingPlayers)
     THEN [doc EXCEPT !.submissions = pushed,
                      !.phase = "LISTENING",
                      !.currentRevealIndex = 0]
     ELSE [doc EXCEPT !.submissions = pushed]

\* (mutant) the transaction records the entry and leaves the phase alone
submitSongTxn_NoAdvance(doc, currentPlayerId, song) ==
  LET rid == doc.roundId
      subsThisRound == SelectSeq(doc.submissions, LAMBDA s : s.roundId = rid)
  IN IF \E i \in 1..Len(subsThisRound) : subsThisRound[i].playerId = currentPlayerId
     THEN doc
     ELSE [doc EXCEPT !.submissions =
             Append(@, [playerId |-> currentPlayerId, song |-> song, roundId |-> rid])]

\* body of the submitSong transaction, applied to the freshly read document
submitSongTxn(doc, currentPlayerId, song) ==
  LET rid == doc.roundId
      playingPlayers == SelectSeq(doc.players, LAMBDA p : ~p.isHost)
      subsThisRound == SelectSeq(doc.submissions, LAMBDA s : s.roundId = rid)
      pushed == Append(doc.submissions,
                       [playerId |-> currentPlayerId, song |-> song, roundId |-> rid])
      newCount == Len(SelectSeq(pushed, LAMBDA s : s.roundId = rid))
  IN IF \E i \in 1..Len(subsThisRound) : subsThisRound[i].playerId = currentPlayerId
     THEN doc
     ELSE IF newCount >= Len(playingPlayers)
          THEN [doc EXCEPT !.submissions = pushed,
                           !.phase = "LISTENING",
                           !.currentRevealIndex = 0]
          ELSE [doc EXCEPT !.submissions = pushed]

\* a guest's roster entry has isHost = FALSE in every snapshot, so the
\* handler's host check is taken on the document
submitSong(g, song) ==
  /\ guestView[g].phase = "SUBMITTING"
  /\ ~isHost(room, g)
  /\ room' = submitSongTxn(room, g, song)

forceStartListening(me, v) ==
  /\ isHost(v, me)
  /\ v.phase = "SUBMITTING"
  /\ room' = [room EXCEPT !.phase = "LISTENING", !.currentRevealIndex = 0]

\* the "Start Matching" button replaces "Next Track" once the host has
\* stepped listeningIndex (local to the host's client) to the last track
startVoting(me, v) ==
  /\ isHost(v, me)
  /\ v.phase = "LISTENING"
  /\ room' = [room EXCEPT !.phase = "VOTING"]

\* (mutant) the transaction appends without removing the earlier guess
submitGuessTxn_NoRemove(doc, currentPlayerId, key, targetPlayerId) ==
  [doc EXCEPT !.guesses = Append(@, [voterId |-> currentPlayerId,
                                     submissionId |-> key,
                                     targetPlayerId |-> targetPlayerId,
                                     roundId |-> doc.roundId])]

\* body of the submitGuess transaction; key was built from the caller's
\* cached roundId before the transaction started
submitGuessTxn(doc, currentPlayerId, key, targetPlayerId) ==
  LET rid == doc.roundId
      kept == SelectSeq(doc.guesses,
                LAMBDA g : ~(g.roundId = rid /\ g.voterId = currentPlayerId
                             /\ g.submissionId = key))
  IN [doc EXCEPT !.guesses = Append(kept, [voterId |-> currentPlayerId,
                                           submissionId |-> key,
                                           targetPlayerId |-> targetPlayerId,
                                           roundId |-> rid])]

submitGuess(g, songId, targetPlayerId) ==
  /\ guestView[g].phase = "VOTING"
  /\ ~isHost(room, g)
  /\ LET key == submissionKey(songId, guestView[g].roundId)
     IN room' = submitGuessTxn(room, g, key, targetPlayerId)

finalizeGuesses(me, v) ==
  /\ isHost(v, me)
  /\ v.phase = "VOTING"
  /\ room' = [room EXCEPT !.phase = "REVEAL", !.currentRevealIndex = 0]

\* ownerByKey.get(key): the Map keeps the last value set for a key
ownerByKey(v, key) ==
  LET subs == submissions(v)
      hits == {i \in 1..Len(subs) : submissionKey(subs[i].song, roundIdOf(v)) = key}
  IN IF hits = {} THEN ""
     ELSE subs[CHOOSE i \in hits : \A j \in hits : j <= i].playerId

\* (mutant) every guess of the player counts, right or wrong
correct_Any(v, p) == Len(SelectSeq(guesses(v), LAMBDA g : g.voterId = p.id))

correct(v, p) ==
  LET my == SelectSeq(guesses(v), LAMBDA g : g.voterId = p.id)
  IN Cardinality({i \in 1..Len(my) :
                    /\ ownerByKey(v, my[i].submissionId) # ""
                    /\ ownerByKey(v, my[i].submissionId) = my[i].targetPlayerId})

updatedPlayers(v) ==
  [i \in 1..Len(v.players) |->
     IF v.players[i].isHost THEN v.players[i]
     ELSE [v.players[i] EXCEPT !.score = @ + correct(v, v.players[i]) * PointsPerGuess]]

\* (mutant) every reveal is taken for the last one
isLast_Always(v) == v.currentRevealIndex >= 0

\* (mutant) no reveal is taken for the last one
isLast_Never(v) == v.currentRevealIndex < 0

isLast(v) == v.currentRevealIndex >= Len(submissions(v)) - 1

\* (mutant) the last reveal writes the phase alone
nextReveal_PhaseOnly(me, v) ==
  /\ isHost(v, me)
  /\ v.phase = "REVEAL"
  /\ v.currentRevealIndex < Len(submissions(v))
  /\ IF ~isLast(v)
     THEN room' = [room EXCEPT !.currentRevealIndex = v.currentRevealIndex + 1]
     ELSE room' = [room EXCEPT !.phase = "SCOREBOARD"]

\* the button is rendered only while submissions[currentRevealIndex] exists
nextReveal(me, v) ==
  /\ isHost(v, me)
  /\ v.phase = "REVEAL"
  /\ v.currentRevealIndex < Len(submissions(v))
  /\ IF ~isLast(v)
     THEN room' = [room EXCEPT !.currentRevealIndex = v.currentRevealIndex + 1]
     ELSE room' = [room EXCEPT !.players = updatedPlayers(v), !.phase = "SCOREBOARD"]

\* (mutant) the next question is opened under the same roundId
nextQuestion_SameRound(me, v) ==
  /\ isHost(v, me)
  /\ v.phase = "SCOREBOARD"
  /\ IF v.currentQuestionIndex >= LastQuestionIndex
     THEN room' = [room EXCEPT !.phase = "FINAL"]
     ELSE room' = [room EXCEPT !.currentQuestionIndex = v.currentQuestionIndex + 1,
                               !.phase = "PROMPT",
                               !.submissions = <<>>,
                               !.guesses = <<>>,
                               !.currentRevealIndex = 0]

\* App.tsx renders no control for nextQuestion; the SCOREBOARD screen of
\* the earlier App variant shows it to the host
nextQuestion(me, v) ==
  /\ isHost(v, me)
  /\ v.phase = "SCOREBOARD"
  /\ IF v.currentQuestionIndex >= LastQuestionIndex
     THEN room' = [room EXCEPT !.phase = "FINAL"]
     ELSE room' = [room EXCEPT !.currentQuestionIndex = v.currentQuestionIndex + 1,
                               !.roundId = roundIdOf(v) + 1,
                               !.phase = "PROMPT",
                               !.submissions = <<>>,
                               !.guesses = <<>>,
                               !.currentRevealIndex = 0]

\* the settings dialog belongs to the main shell, rendered past the lobby
resetRoomData(me, v) ==
  /\ isHost(v, me)
  /\ v.phase # "LOBBY"
  /\ room' = [room EXCEPT !.phase = "LOBBY",
                          !.currentQuestionIndex = 0,
                          !.roundId = 0,
                          !.submissions = <<>>,
                          !.guesses = <<>>,
                          !.currentRevealIndex = 0]

\* ---------------------------------------------------------------- history
scores(doc) == [i \in 1..Len(doc.players) |-> doc.players[i].score]

\* a round is entered when a write puts the room in LOBBY or PROMPT
Awards ==
  awards' = IF room'.phase \in {"LOBBY", "PROMPT"} THEN 0
            ELSE IF scores(room') # scores(room) THEN awards + 1
            ELSE awards

\* the scripted scenario advances on its k-th step and is abandoned by any
\* other write
Scn(k) ==
  scn' = IF k > 0 /\ scn = k - 1 THEN k
         ELSE IF room' = room THEN scn
         ELSE -1

\* ------------------------------------------- delivery of the notification
HostCurrent == hostView' = Sanitise(room')

HostLags == hostView' = hostView

GuestsLag == guestView' = guestView

GuestsCurrent ==
  guestView' = [x \in Guests |->
                  IF guestView[x] = NotJoined THEN NotJoined
                  ELSE GuestCache(Sanitise(room'))]

Joined(g) == guestView' = [guestView EXCEPT ![g] = GuestCache(room)]

\* ------------------------------------------------------------- the bounds
ScoresWithin == \A i \in 1..Len(room'.players) :
                  room'.players[i].score <= MaxPoints * PointsPerGuess

RoundWithin == room'.roundId <= MaxRound

\* ------------------------------------------------------------------- Spec
OnePick(n) == {PickFns(n, 2..n)}

QuestionsOf(gen) == IF gen = "list" THEN GeneratedQuestions ELSE INITIAL_QUESTIONS

OneSong == {"s1"}

Next ==
  \/ \E g \in Guests : NotifyGuest(g) /\ UNCHANGED <<scn, awards>>
  \/ \E g \in Guests : joinRoom(g) /\ Joined(g) /\ HostCurrent /\ UNCHANGED <<scn, awards>>
  \/ \E gen \in GenOutcomes : \E pick \in OnePick(Len(QuestionsOf(gen))) :
       startGame(HostId, hostView, gen, pick) /\ HostCurrent /\ GuestsLag
       /\ Awards /\ UNCHANGED scn
  \/ openSubmissions(HostId, hostView) /\ HostCurrent /\ GuestsLag /\ Awards /\ UNCHANGED scn
  \/ \E g \in Guests, song \in OneSong :
       submitSong(g, song) /\ HostCurrent /\ GuestsLag /\ Awards /\ UNCHANGED scn
  \/ forceStartListening(HostId, hostView) /\ HostCurrent /\ GuestsLag
       /\ Awards /\ UNCHANGED scn
  \/ startVoting(HostId, hostView) /\ HostCurrent /\ GuestsLag /\ Awards /\ UNCHANGED scn
  \/ \E g \in Guests, songId \in OneSong, t \in Guests :
       submitGuess(g, songId, t) /\ Len(room'.guesses) <= MaxGuesses
       /\ HostCurrent /\ GuestsLag /\ Awards /\ UNCHANGED scn
  \/ finalizeGuesses(HostId, hostView) /\ HostCurrent /\ GuestsLag /\ Awards /\ UNCHANGED scn
  \/ nextReveal(HostId, hostView) /\ ScoresWithin /\ HostCurrent /\ GuestsLag
       /\ Awards /\ UNCHANGED scn
  \/ nextQuestion(HostId, hostView) /\ RoundWithin /\ HostCurrent /\ GuestsLag
       /\ Awards /\ UNCHANGED scn
  \/ resetRoomData(HostId, hostView) /\ HostCurrent /\ GuestsLag /\ Awards /\ UNCHANGED scn

Spec == Init /\ [][Next]_vars

\* --------------------------------------------------------------- SpecView
\* The derived lists and the scoring are functions of the client's state:
\* the document is drawn from the documents below (entries of the current
\* and of another round, two submissions with one key, guesses for keys
\* that name no submission), the host's client is notified and reveals.
ViewRounds == {0, 1}

SeqsUpTo(S, n) == UNION {[1..k -> S] : k \in 0..n}

ViewSubmissions ==
  SeqsUpTo([playerId : Guests, song : Songs, roundId : ViewRounds], MaxViewLen)

ViewGuesses ==
  SeqsUpTo([voterId : Guests,
            submissionId : {submissionKey("s1", r) : r \in ViewRounds},
            targetPlayerId : Guests,
            roundId : ViewRounds], MaxViewLen)

ViewPlayers ==
  <<host, [id |-> "a", score |-> 10, isHost |-> FALSE],
          [id |-> "b", score |-> 0, isHost |-> FALSE]>>

ViewDocs ==
  {[initialGame EXCEPT !.phase = "REVEAL", !.roundId = r, !.players = ViewPlayers,
                       !.submissions = ss, !.guesses = gs] :
     r \in ViewRounds, ss \in ViewSubmissions, gs \in ViewGuesses}

ViewInit ==
  /\ room \in ViewDocs
  /\ hostView = initialGame
  /\ guestView = [g \in Guests |-> NotJoined]
  /\ scn = 0
  /\ awards = 0

ViewNext ==
  \/ NotifyHost /\ UNCHANGED <<scn, awards>>
  \/ nextReveal(HostId, hostView) /\ HostLags /\ GuestsLag /\ Awards /\ UNCHANGED scn

SpecView == ViewInit /\ [][ViewNext]_vars

\* --------------------------------------------------------------- SpecSync
\* Every client has processed the notification of each write before the
\* next operation; guests call the handlers with any song and any target.
\* scn follows the scripted game: a and b join, the host starts and opens
\* the round, a submits s1, b submits s2, the host starts the voting, a
\* guesses s2 as b, b guesses s1 as h, the host finalizes and reveals twice.
SyncViews(g) ==
  guestView' = [x \in Guests |->
                  IF x # g /\ guestView[x] = NotJoined THEN NotJoined
                  ELSE GuestCache(Sanitise(room'))]

JoinStep(g) == IF g = "a" THEN 1 ELSE 2

SongStep(g, song) ==
  IF g = "a" /\ song = "s1" THEN 5 ELSE IF g = "b" /\ song = "s2" THEN 6 ELSE 0

GuessStep(g, songId, t) ==
  IF g = "a" /\ songId = "s2" /\ t = "b" THEN 8
  ELSE IF g = "b" /\ songId = "s1" /\ t = HostId THEN 9 ELSE 0

RevealStep == IF scn = 10 THEN 11 ELSE 12

SyncNext ==
  \/ \E g \in Guests :
       joinRoom(g) /\ SyncViews(g) /\ HostCurrent /\ Awards /\ Scn(JoinStep(g))
  \/ \E gen \in GenOutcomes : \E pick \in OnePick(Len(QuestionsOf(gen))) :
       startGame(HostId, hostView, gen, pick) /\ HostCurrent /\ GuestsCurrent
       /\ Awards /\ Scn(3)
  \/ openSubmissions(HostId, hostView) /\ HostCurrent /\ GuestsCurrent /\ Awards /\ Scn(4)
  \/ \E g \in Guests, song \in Songs :
       submitSong(g, song) /\ HostCurrent /\ GuestsCurrent /\ Awards
       /\ Scn(SongStep(g, song))
  \/ forceStartListening(HostId, hostView) /\ HostCurrent /\ GuestsCurrent
       /\ Awards /\ Scn(0)
  \/ startVoting(HostId, hostView) /\ HostCurrent /\ GuestsCurrent /\ Awards /\ Scn(7)
  \/ \E g \in Guests, songId \in Songs, t \in PlayerIds :
       submitGuess(g, songId, t) /\ Len(room'.guesses) <= MaxGuesses
       /\ HostCurrent /\ GuestsCurrent /\ Awards /\ Scn(GuessStep(g, songId, t))
  \/ finalizeGuesses(HostId, hostView) /\ HostCurrent /\ GuestsCurrent
       /\ Awards /\ Scn(10)
  \/ nextReveal(HostId, hostView) /\ ScoresWithin /\ HostCurrent /\ GuestsCurrent
       /\ Awards /\ Scn(RevealStep)
  \/ nextQuestion(HostId, hostView) /\ RoundWithin /\ HostCurrent /\ GuestsCurrent
       /\ Awards /\ Scn(0)
  \/ resetRoomData(HostId, hostView) /\ HostCurrent /\ GuestsCurrent /\ Awards /\ Scn(0)

SpecSync == Init /\ [][SyncNext]_vars

\* -------------------------------------------------------------- SpecStart
\* The lobby: guests join and the host starts the game, with every outcome
\* of the question service and the shuffles that leave each position alone
\* or swap it with the first.
AllPicks(n) == {PickFns(n, S) : S \in SUBSET (2..n)}

StartNext ==
  \/ \E g \in Guests :
       joinRoom(g) /\ Joined(g) /\ HostCurrent /\ UNCHANGED <<scn, awards>>
  \/ \E gen \in GenOutcomes : \E pick \in AllPicks(Len(QuestionsOf(gen))) :
       startGame(HostId, hostView, gen, pick) /\ HostCurrent /\ GuestsLag
       /\ UNCHANGED <<scn, awards>>

SpecStart == Init /\ [][StartNext]_vars

\* --------------------------------------------------------------- SpecGame
\* Whole games, from the lobby to FINAL and through resets: the host's
\* client and a's are current, b's may lag. One song, and at most one guess
\* in the document at a time.
OneGuess == Len(room'.guesses) <= 1

GameViews ==
  guestView' = [x \in Guests |->
                  IF x = "b" \/ guestView[x] = NotJoined THEN guestView[x]
                  ELSE GuestCache(Sanitise(room'))]

GameJoined(g) ==
  guestView' = [x \in Guests |->
                  IF x = g THEN (IF g = "b" THEN GuestCache(Sanitise(room))
                                 ELSE GuestCache(Sanitise(room')))
                  ELSE IF x = "b" \/ guestView[x] = NotJoined THEN guestView[x]
                  ELSE GuestCache(Sanitise(room'))]

GameNext ==
  \/ NotifyGuest("b") /\ UNCHANGED <<scn, awards>>
  \/ \E g \in Guests :
       joinRoom(g) /\ GameJoined(g) /\ HostCurrent /\ UNCHANGED <<scn, awards>>
  \/ \E gen \in GenOutcomes : \E pick \in OnePick(Len(QuestionsOf(gen))) :
       startGame(HostId, hostView, gen, pick) /\ HostCurrent /\ GameViews
       /\ Awards /\ UNCHANGED scn
  \/ openSubmissions(HostId, hostView) /\ HostCurrent /\ GameViews /\ Awards /\ UNCHANGED scn
  \/ \E g \in Guests, song \in OneSong :
       submitSong(g, song) /\ HostCurrent /\ GameViews /\ Awards /\ UNCHANGED scn
  \/ forceStartListening(HostId, hostView) /\ HostCurrent /\ GameViews
       /\ Awards /\ UNCHANGED scn
  \/ startVoting(HostId, hostView) /\ HostCurrent /\ GameViews /\ Awards /\ UNCHANGED scn
  \/ \E g \in Guests, songId \in OneSong, t \in Guests :
       submitGuess(g, songId, t) /\ OneGuess
       /\ HostCurrent /\ GameViews /\ Awards /\ UNCHANGED scn
  \/ finalizeGuesses(HostId, hostView) /\ HostCurrent /\ GameViews /\ Awards /\ UNCHANGED scn
  \/ nextReveal(HostId, hostView) /\ ScoresWithin /\ HostCurrent /\ GameViews
       /\ Awards /\ UNCHANGED scn
  \/ nextQuestion(HostId, hostView) /\ HostCurrent /\ GameViews /\ Awards /\ UNCHANGED scn
  \/ resetRoomData(HostId, hostView) /\ HostCurrent /\ GameViews /\ Awards /\ UNCHANGED scn

SpecGame == Init /\ [][GameNext]_vars

\* --------------------------------------------------------------- SpecLate
\* One round with three guests. Each guest's client holds the whole
\* snapshot; the clients of a and b are current and the client of c may lag.
\* Guests act through what their screen offers.
LateGuests == {"a", "b", "c"}

Laggard == "c"

LateGen == {"fail"}

\* the guests join in this order, and each has one song in mind
JoinOrder == <<"a", "b", "c">>

SongOf == [g \in LateGuests |-> IF g = "b" THEN "s2" ELSE "s1"]

\* the song picker is shown in SUBMITTING until the client sees its own entry
SubmitOffered(g, v) == v.phase = "SUBMITTING" /\ ~hasSubmitted(v, g)

\* the voting screen lists the other players' submissions, each with a
\* button per non-host player other than the voter
GuessOffered(g, v, songId, t) ==
  /\ v.phase = "VOTING"
  /\ \E i \in 1..Len(submissions(v)) :
       submissions(v)[i].playerId # g /\ submissions(v)[i].song = songId
  /\ \E j \in 1..Len(v.players) :
       v.players[j].id = t /\ t # g /\ ~v.players[j].isHost

LateInit ==
  /\ room = initialGame
  /\ hostView = initialGame
  /\ guestView = [g \in LateGuests |-> NotJoined]
  /\ scn = 0
  /\ awards = 0

LateViews ==
  guestView' = [x \in LateGuests |->
                  IF x = Laggard \/ guestView[x] = NotJoined THEN guestView[x]
                  ELSE Sanitise(room')]

LateJoined(g) ==
  guestView' = [x \in LateGuests |->
                  IF x = g THEN (IF g = Laggard THEN Sanitise(room) ELSE Sanitise(room'))
                  ELSE IF x = Laggard \/ guestView[x] = NotJoined THEN guestView[x]
                  ELSE Sanitise(room')]

NotifyLaggard ==
  /\ guestView[Laggard] # NotJoined
  /\ guestView[Laggard] # Sanitise(room)
  /\ guestView' = [guestView EXCEPT ![Laggard] = Sanitise(room)]
  /\ UNCHANGED <<room, hostView>>

LateNext ==
  \/ NotifyLaggard /\ UNCHANGED <<scn, awards>>
  \/ \E g \in LateGuests :
       /\ Len(room.players) <= Len(JoinOrder) /\ g = JoinOrder[Len(room.players)]
       /\ joinRoom(g) /\ LateJoined(g) /\ HostCurrent /\ UNCHANGED <<scn, awards>>
  \/ \E gen \in LateGen : \E pick \in OnePick(Len(QuestionsOf(gen))) :
       startGame(HostId, hostView, gen, pick) /\ HostCurrent /\ LateViews
       /\ Awards /\ UNCHANGED scn
  \/ openSubmissions(HostId, hostView) /\ HostCurrent /\ LateViews /\ Awards /\ UNCHANGED scn
  \/ \E g \in LateGuests :
       SubmitOffered(g, guestView[g]) /\ submitSong(g, SongOf[g])
       /\ HostCurrent /\ LateViews /\ Awards /\ UNCHANGED scn
  \/ forceStartListening(HostId, hostView) /\ HostCurrent /\ LateViews
       /\ Awards /\ UNCHANGED scn
  \/ startVoting(HostId, hostView) /\ HostCurrent /\ LateViews /\ Awards /\ UNCHANGED scn
  \/ \E g \in LateGuests, songId \in Songs, t \in LateGuests :
       GuessOffered(g, guestView[g], songId, t) /\ submitGuess(g, songId, t)
       /\ Len(room'.guesses) <= MaxGuesses
       /\ HostCurrent /\ LateViews /\ Awards /\ UNCHANGED scn
  \/ finalizeGuesses(HostId, hostView) /\ HostCurrent /\ LateViews /\ Awards /\ UNCHANGED scn
  \/ nextReveal(HostId, hostView) /\ HostCurrent /\ LateViews /\ Awards /\ UNCHANGED scn

SpecLate == LateInit /\ [][LateNext]_vars

\* ------------------------------------------------------------------ claims
SubmissionCount(doc, p, r) ==
  Cardinality({i \in 1..Len(doc.submissions) :
                 doc.submissions[i].playerId = p /\ doc.submissions[i].roundId = r})

GuessesOf(doc, voter, key, r) ==
  {i \in 1..Len(doc.guesses) : /\ doc.guesses[i].voterId = voter
                               /\ doc.guesses[i].submissionId = key
                               /\ doc.guesses[i].roundId = r}

\* C1: the document never holds two submissions of one player for one round,
\* and every committed submitSong transaction of a guest P leaves exactly one
\* submission with playerId = P tagged with the document's round, however
\* often P submits and however the other players' transactions interleave.
C1_OneSubmissionPerPlayerRound ==
  [][/\ \A i \in 1..Len(room'.submissions) :
          SubmissionCount(room', room'.submissions[i].playerId,
                          room'.submissions[i].roundId) = 1
     /\ \A p \in Guests :
          (\E song \in Songs : submitSong(p, song))
            => SubmissionCount(room', p, room'.roundId) = 1]_vars

\* C1 witness: a guest whose screen still offers the song search although
\* its submission for the second round is in the document, beside the other
\* guest's.
C1_Witness ==
  /\ room.roundId = 1
  /\ guestView["a"].phase = "SUBMITTING"
  /\ SubmissionCount(room, "a", 1) = 1
  /\ SubmissionCount(room, "b", 1) = 1

\* C2: the document never holds two guesses of one voter for one composite
\* key in one round; every committed submitGuess of voter V for key K leaves
\* exactly one such guess, carrying that call's target; and the target of an
\* existing guess changes only by a submitGuess of its voter for its key.
C2_OneGuessPerVoterKey ==
  [][/\ \A i \in 1..Len(room'.guesses) :
          Cardinality(GuessesOf(room', room'.guesses[i].voterId,
                                room'.guesses[i].submissionId,
                                room'.guesses[i].roundId)) = 1
     /\ \A v \in Guests, songId \in Songs, t \in PlayerIds :
          submitGuess(v, songId, t)
            => LET key == submissionKey(songId, guestView[v].roundId)
                   mine == GuessesOf(room', v, key, room'.roundId)
               IN /\ Cardinality(mine) = 1
                  /\ \A i \in mine : room'.guesses[i].targetPlayerId = t
     /\ \A i \in 1..Len(room.guesses), j \in 1..Len(room'.guesses) :
          (/\ room.guesses[i].voterId = room'.guesses[j].voterId
           /\ room.guesses[i].submissionId = room'.guesses[j].submissionId
           /\ room.guesses[i].roundId = room'.guesses[j].roundId
           /\ room.guesses[i].targetPlayerId # room'.guesses[j].targetPlayerId)
            => \E songId \in Songs :
                 submitGuess(room.guesses[i].voterId, songId,
                             room'.guesses[j].targetPlayerId)]_vars

\* C2 witness: during voting both voters hold a guess, and the one stored
\* last (a's, naming a itself) was committed after b's.
C2_Witness ==
  /\ Len(room.guesses) = 2
  /\ room.guesses[1].voterId = "b"
  /\ room.guesses[2].voterId = "a"
  /\ room.guesses[2].targetPlayerId = "a"
  /\ room.phase = "VOTING"

\* the client state without the entries of other rounds
Purge(v) ==
  [v EXCEPT !.submissions = SelectSeq(@, LAMBDA s : s.roundId = v.roundId),
            !.guesses = SelectSeq(@, LAMBDA g : g.roundId = v.roundId)]

Derived(v) ==
  [submissions |-> submissions(v),
   guesses |-> guesses(v),
   remainingPlayers |-> remainingPlayers(v),
   hasSubmitted |-> [p \in PlayerIds |-> hasSubmitted(v, p)],
   allGuessesCompleted |-> [p \in PlayerIds |-> allGuessesCompleted(v, p)],
   guessProgress |-> guessProgress(v),
   updatedPlayers |-> updatedPlayers(v),
   isLast |-> isLast(v)]

\* C3: in every state of a client, no entry tagged with a round other than
\* the state's roundId is in the derived current-round lists, and what is
\* computed from them (remainingPlayers, hasSubmitted, guessProgress, the
\* reveal position, the scores nextReveal writes) is what it would be
\* without those entries.
C3_RoundIsolation ==
  /\ \A i \in 1..Len(submissions(hostView)) :
       submissions(hostView)[i].roundId = hostView.roundId
  /\ \A i \in 1..Len(guesses(hostView)) :
       guesses(hostView)[i].roundId = hostView.roundId
  /\ Derived(hostView) = Derived(Purge(hostView))

\* C3 witness: the host's client holds a submission and a guess of another
\* round beside a submission and a guess of the current round.
C3_Witness ==
  /\ hostView.phase = "REVEAL"
  /\ \E i, j \in 1..Len(hostView.submissions) :
       /\ hostView.submissions[i].roundId # hostView.roundId
       /\ hostView.submissions[j].roundId = hostView.roundId
  /\ \E i, j \in 1..Len(hostView.guesses) :
       /\ hostView.guesses[i].roundId # hostView.roundId
       /\ hostView.guesses[j].roundId = hostView.roundId

\* the owner of a key as the claim reads it: the player of the current-round
\* submission with that key (the last one, should two share the key)
C4_Owner(v, key) ==
  LET S == {i \in 1..Len(v.submissions) :
              /\ v.submissions[i].roundId = v.roundId
              /\ submissionKey(v.submissions[i].song, v.submissions[i].roundId) = key}
  IN IF S = {} THEN "nobody"
     ELSE v.submissions[CHOOSE i \in S : \A j \in S : j <= i].playerId

C4_Right(v, p) ==
  Cardinality({i \in 1..Len(v.guesses) :
                 /\ v.guesses[i].roundId = v.roundId
                 /\ v.guesses[i].voterId = p
                 /\ C4_Owner(v, v.guesses[i].submissionId) = v.guesses[i].targetPlayerId})

\* C4: when nextReveal runs at the last reveal index, the score it writes for
\* every non-host player P is P's score in the host's state plus 10 for each
\* current-round guess of P whose target is the owner of the guessed key; a
\* guess whose key names no current-round submission adds nothing, and the
\* host's score is written unchanged.
C4_ScoreDelta ==
  [][(nextReveal(HostId, hostView) /\ isLast(hostView))
       => /\ Len(room'.players) = Len(hostView.players)
          /\ \A i \in 1..Len(hostView.players) :
               /\ room'.players[i].id = hostView.players[i].id
               /\ room'.players[i].score =
                    IF hostView.players[i].isHost THEN hostView.players[i].score
                    ELSE hostView.players[i].score
                           + 10 * C4_Right(hostView, hostView.players[i].id)]_vars

\* C4 witness: scores were written for a round in which player a, who had 10
\* points, guessed twice, once right and once for a key of another round; it
\* now has 20.
C4_Witness ==
  /\ room.phase = "SCOREBOARD"
  /\ hostView.phase = "REVEAL"
  /\ room.players[2].score = 20
  /\ Len(guesses(hostView)) = 2
  /\ \A i \in 1..2 : guesses(hostView)[i].voterId = "a"
  /\ \E i \in 1..2 : guesses(hostView)[i].submissionId[1] # hostView.roundId

\* C5: a round's points are awarded at most once: between two entries into
\* a round (a write that puts the room in LOBBY or PROMPT) at most one
\* write changes the players' scores.
C5_AwardedOnce == awards <= 1

\* C5, the state that refutes it: one guess was made in the only round
\* played, and a player holds 20 points.
C5_Witness ==
  /\ awards = 2
  /\ room.phase = "SCOREBOARD"
  /\ room.roundId = 0
  /\ Len(room.guesses) = 1
  /\ \E i \in 1..Len(room.players) : room.players[i].score = 20

PhaseRank ==
  [p \in {"LOBBY", "PROMPT", "SUBMITTING", "LISTENING", "VOTING", "REVEAL",
          "SCOREBOARD", "FINAL"} |->
     CASE p = "LOBBY" -> 0 [] p = "PROMPT" -> 1 [] p = "SUBMITTING" -> 2
       [] p = "LISTENING" -> 3 [] p = "VOTING" -> 4 [] p = "REVEAL" -> 5
       [] p = "SCOREBOARD" -> 6 [] p = "FINAL" -> 7]

\* C6: every change of the room's phase moves forward in the order LOBBY,
\* PROMPT, SUBMITTING, LISTENING, VOTING, REVEAL, SCOREBOARD, FINAL, or is
\* the loop from SCOREBOARD to PROMPT.
C6_PhaseForward ==
  [][\/ PhaseRank[room'.phase] >= PhaseRank[room.phase]
     \/ room.phase = "SCOREBOARD" /\ room'.phase = "PROMPT"]_vars

\* C6, the state that refutes it: the round's scores have been written and
\* the room is in LISTENING again.
C6_Witness == room.phase = "LISTENING" /\ awards = 1

ScoreOf(doc, p) ==
  LET i == CHOOSE i \in 1..Len(doc.players) : doc.players[i].id = p
  IN doc.players[i].score

\* C7: along the scripted game the room is in PROMPT with roundId 0 after
\* startGame, in SUBMITTING after openSubmissions and after a's submission,
\* in LISTENING after b's submission, in VOTING after startVoting, in
\* REVEAL after finalizeGuesses and after the first nextReveal, and in
\* SCOREBOARD after the second, with 10 points for a and 0 for b and for
\* the host.
C7_Scenario ==
  /\ scn = 3 => room.phase = "PROMPT" /\ room.roundId = 0
  /\ scn \in {4, 5} => room.phase = "SUBMITTING"
  /\ scn = 6 => room.phase = "LISTENING"
  /\ scn \in {7, 8, 9} => room.phase = "VOTING"
  /\ scn \in {10, 11} => room.phase = "REVEAL"
  /\ scn = 12 => /\ room.phase = "SCOREBOARD"
                 /\ ScoreOf(room, "a") = 10
                 /\ ScoreOf(room, "b") = 0
                 /\ ScoreOf(room, HostId) = 0

\* C7 witness: the scripted game has been played to its last step.
C7_Witness == scn = 12 /\ Len(room.submissions) = 2 /\ Len(room.guesses) = 2

IsPermutation(s, t) ==
  /\ Len(s) = Len(t)
  /\ \A i \in 1..Len(t) :
       Cardinality({j \in 1..Len(s) : s[j] = t[i]})
         = Cardinality({j \in 1..Len(t) : t[j] = t[i]})

\* C8: a startGame step in which the question service throws or returns an
\* empty list leaves the room in PROMPT with a permutation of the 10
\* built-in prompts as its questions.
C8_FallbackQuestions ==
  [][\A gen \in {"fail", "empty"} : \A pick \in AllPicks(Len(INITIAL_QUESTIONS)) :
        startGame(HostId, hostView, gen, pick)
          => /\ room'.phase = "PROMPT"
             /\ Len(room'.questions) = 10
             /\ IsPermutation(room'.questions, INITIAL_QUESTIONS)]_vars

\* C8 witness: the game has started with the built-in prompts in an order
\* other than the built-in one.
C8_Witness ==
  /\ room.phase = "PROMPT"
  /\ Len(nonHostPlayers(room)) >= 2
  /\ room.questions # INITIAL_QUESTIONS
  /\ room.questions[10] = "q1"
  /\ room.questions[9] = "q9"

AllSubmitted(doc) ==
  \A i \in 1..Len(doc.players) :
     doc.players[i].isHost \/ SubmissionCount(doc, doc.players[i].id, doc.roundId) >= 1

C10_RoundIdStepsByOne ==
  [][\/ room'.roundId = room.roundId
     \/ room'.roundId = room.roundId + 1 /\ nextQuestion(HostId, hostView)]_vars

\* C10, the state that refutes it: the room's roundId is 0 while a guest's
\* screen, not yet notified, still shows the voting of round 1.
C10_Witness ==
  /\ room.roundId = 0
  /\ \E g \in Guests : guestView[g] = [phase |-> "VOTING", roundId |-> 1]

\* C11: in every state currentQuestionIndex is at least 0 and below the
\* length of the room's questions, and it decreases only when the game is
\* over and the room goes back to the lobby.
C11_QuestionIndex ==
  /\ [](/\ room.currentQuestionIndex >= 0
        /\ room.currentQuestionIndex < Len(room.questions))
  /\ [][\/ room'.currentQuestionIndex >= room.currentQuestionIndex
        \/ room'.phase = "LOBBY"]_vars

\* C11, the state that refutes it: the service gave three prompts and the
\* room asks for the fourth.
C11_Witness ==
  /\ room.phase = "PROMPT"
  /\ Len(room.questions) = Len(GeneratedQuestions)
  /\ room.currentQuestionIndex = Len(room.questions)

Holds(seq, e) == \E j \in 1..Len(seq) : seq[j] = e

\* C12: no step removes a submission from the room's submissions, and no
\* step removes a guess from the room's guesses other than a submitGuess of
\* the guess's voter for the guess's key in the guess's round.
C12_AppendOnly ==
  [][/\ \A i \in 1..Len(room.submissions) :
          Holds(room'.submissions, room.submissions[i])
     /\ \A i \in 1..Len(room.guesses) :
          \/ Holds(room'.guesses, room.guesses[i])
          \/ /\ room.guesses[i].roundId = room.roundId
             /\ \E songId \in Songs, t \in PlayerIds :
                  /\ submitGuess(room.guesses[i].voterId, songId, t)
                  /\ submissionKey(songId, guestView[room.guesses[i].voterId].roundId)
                       = room.guesses[i].submissionId]_vars

\* C12, the state that refutes it: the second round has begun, a player
\* holds points for a right guess of the first round, and the document
\* holds no submission and no guess.
C12_Witness ==
  /\ room.roundId = 1
  /\ room.phase = "PROMPT"
  /\ room.submissions = <<>>
  /\ room.guesses = <<>>
  /\ \E i \in 1..Len(room.players) : room.players[i].score = 10

\* ------------------------------------------------------------- SpecRoster
\* Two rounds with three guests who may join at any phase and may reload the
\* page. The guests' clients are current; the host's client may miss the
\* notification of a roster write until the next write or NotifyHost.
\* Between the two awaits of tryRejoin the reloading client holds the roster
\* it has read: guestView[g] is then a record with phase "REJOIN".
Rejoining(snapshot) == [phase |-> "REJOIN", roundId |-> 0, players |-> snapshot]

InRoster(doc, id) == \E i \in 1..Len(doc.players) : doc.players[i].id = id

\* tryRejoin up to its first await: the page was reloaded by a client that
\* has joined before (room id, player id and name are in the storage)
tryRejoinGet(g) ==
  /\ guestView[g] # NotJoined
  /\ guestView[g].phase # "REJOIN"
  /\ room' = room
  /\ guestView' = [guestView EXCEPT ![g] =
                     IF InRoster(room, g) THEN GuestCache(Sanitise(room))
                     ELSE Rejoining(room.players)]

\* (mutant) the rejoined player is written as a host
tryRejoinUpdate_AsHost(g) ==
  /\ guestView[g].phase = "REJOIN"
  /\ LET rejoinedPlayer == [id |-> g, score |-> 0, isHost |-> TRUE]
     IN room' = [room EXCEPT !.players = Append(guestView[g].players, rejoinedPlayer)]

\* tryRejoin from its update on: the roster read earlier, with the player
\* appended, replaces the stored roster
tryRejoinUpdate(g) ==
  /\ guestView[g].phase = "REJOIN"
  /\ LET rejoinedPlayer == [id |-> g, score |-> 0, isHost |-> FALSE]
     IN room' = [room EXCEPT !.players = Append(guestView[g].players, rejoinedPlayer)]

RosterViews ==
  guestView' = [x \in LateGuests |->
                  IF guestView[x] = NotJoined \/ guestView[x].phase = "REJOIN"
                  THEN guestView[x]
                  ELSE GuestCache(Sanitise(room'))]

RosterJoined(g) ==
  guestView' = [x \in LateGuests |->
                  IF x = g THEN GuestCache(Sanitise(room'))
                  ELSE IF guestView[x] = NotJoined \/ guestView[x].phase = "REJOIN"
                  THEN guestView[x]
                  ELSE GuestCache(Sanitise(room'))]

HostMayLag == HostLags \/ HostCurrent

RosterNext ==
  \/ NotifyHost /\ UNCHANGED <<scn, awards>>
  \/ \E g \in LateGuests :
       /\ Len(room.players) <= Len(JoinOrder) /\ g = JoinOrder[Len(room.players)]
       /\ joinRoom(g) /\ RosterJoined(g) /\ HostMayLag /\ UNCHANGED <<scn, awards>>
  \/ \E g \in LateGuests : tryRejoinGet(g) /\ UNCHANGED <<hostView, scn, awards>>
  \/ \E g \in LateGuests :
       tryRejoinUpdate(g) /\ RosterJoined(g) /\ HostMayLag /\ Awards /\ UNCHANGED scn
  \/ \E gen \in LateGen : \E pick \in OnePick(Len(QuestionsOf(gen))) :
       startGame(HostId, hostView, gen, pick) /\ HostCurrent /\ RosterViews
       /\ Awards /\ UNCHANGED scn
  \/ openSubmissions(HostId, hostView) /\ HostCurrent /\ RosterViews /\ Awards /\ UNCHANGED scn
  \/ \E g \in LateGuests :
       SubmitOffered(g, Sanitise(room)) /\ submitSong(g, SongOf[g])
       /\ HostCurrent /\ RosterViews /\ Awards /\ UNCHANGED scn
  \/ forceStartListening(HostId, hostView) /\ HostCurrent /\ RosterViews
       /\ Awards /\ UNCHANGED scn
  \/ startVoting(HostId, hostView) /\ HostCurrent /\ RosterViews /\ Awards /\ UNCHANGED scn
  \/ \E g \in LateGuests, songId \in Songs, t \in LateGuests :
       GuessOffered(g, Sanitise(room), songId, t) /\ submitGuess(g, songId, t)
       /\ OneGuess
       /\ HostCurrent /\ RosterViews /\ Awards /\ UNCHANGED scn
  \/ finalizeGuesses(HostId, hostView) /\ HostCurrent /\ RosterViews /\ Awards /\ UNCHANGED scn
  \/ nextReveal(HostId, hostView) /\ HostCurrent /\ RosterViews /\ Awards /\ UNCHANGED scn
  \/ nextQuestion(HostId, hostView) /\ RoundWithin /\ HostCurrent /\ RosterViews
       /\ Awards /\ UNCHANGED scn

SpecRoster == LateInit /\ [][RosterNext]_vars

\* C13: a player enters the roster with score 0, no step lowers the score of
\* a player who stays in the roster, and every step that changes such a
\* score is the scoring write of nextReveal.
C13_ScoresOnlyGrow ==
  [][/\ \A p \in PlayerIds \cup LateGuests :
          /\ (InRoster(room', p) /\ ~InRoster(room, p)) => ScoreOf(room', p) = 0
          /\ (InRoster(room', p) /\ InRoster(room, p)) =>
                /\ ScoreOf(room', p) >= ScoreOf(room, p)
                /\ ScoreOf(room', p) # ScoreOf(room, p) =>
                     /\ nextReveal(HostId, hostView)
                     /\ room'.phase = "SCOREBOARD"]_vars

\* C13, the state that refutes it: the host's client still shows the 10
\* points it wrote for a player in the second round, and the stored roster,
\* put back by the reloading client of c, has that player at 0.
C13_Witness ==
  /\ room.phase = "SCOREBOARD"
  /\ room.roundId = 1
  /\ InRoster(room, "c")
  /\ \E i \in 1..Len(hostView.players) :
       /\ hostView.players[i].score = 10
       /\ InRoster(room, hostView.players[i].id)
       /\ ScoreOf(room, hostView.players[i].id) = 0

HostFlags(doc) == {i \in 1..Len(doc.players) : doc.players[i].isHost}

FlagOf(doc, p) ==
  LET i == CHOOSE i \in 1..Len(doc.players) : doc.players[i].id = p
  IN doc.players[i].isHost

\* C14: the roster always holds exactly one entry with isHost set, the entry
\* createRoom wrote for the host, and no step changes the flag of a player
\* who stays in the roster.
C14_OneHost ==
  /\ [](/\ Cardinality(HostFlags(room)) = 1
        /\ \A i \in HostFlags(room) : room.players[i] = host)
  /\ [][\A p \in PlayerIds \cup LateGuests :
          (InRoster(room, p) /\ InRoster(room', p)) => FlagOf(room', p) = FlagOf(room, p)]_vars

\* C14, a state where it matters: c, dropped from the roster in the first
\* round, has submitted in the second and has been put back by its reloaded
\* client after the host's client saw the scoreboard without c.
C14_Witness ==
  /\ room.phase = "SCOREBOARD"
  /\ room.roundId = 1
  /\ hostView.phase = "SCOREBOARD"
  /\ ~InRoster(hostView, "c")
  /\ InRoster(room, "c")
  /\ \E i \in 1..Len(room.submissions) : room.submissions[i].playerId = "c"

\* C15: every player id in the roster before a step is in the roster after
\* it.
C15_RosterOnlyGrows ==
  [][\A p \in PlayerIds \cup LateGuests : InRoster(room, p) => InRoster(room', p)]_vars

\* C15, the state that refutes it: c has joined and its client is
\* subscribed, the first round has been scored, and the roster has no c.
C15_Witness ==
  /\ room.phase = "SCOREBOARD"
  /\ room.roundId = 0
  /\ guestView["c"] = GuestCache(Sanitise(room))
  /\ ~InRoster(room, "c")
  /\ InRoster(room, "a") /\ InRoster(room, "b")

\* -------------------------------------------------------------- SpecRoles
\* Every client is current and invokes every handler, whatever its screen
\* renders: guests call the host's operations and the host calls submitSong
\* and submitGuess. A handler that returns early leaves everything as it is.

\* the host's operations as one client invokes them from its snapshot v
HostOps(me, v) ==
  \/ \E gen \in GenOutcomes : \E pick \in OnePick(Len(QuestionsOf(gen))) :
       startGame(me, v, gen, pick)
  \/ openSubmissions(me, v)
  \/ forceStartListening(me, v)
  \/ startVoting(me, v)
  \/ finalizeGuesses(me, v)
  \/ nextReveal(me, v)
  \/ nextQuestion(me, v)
  \/ resetRoomData(me, v)

\* a joined guest invokes one of the host's operations: it runs, or it
\* returns at "if (!isHost || !roomRef) return"
GuestInvokes(g) ==
  /\ guestView[g] # NotJoined
  /\ \/ HostOps(g, Sanitise(room))
     \/ ~isHost(Sanitise(room), g) /\ room' = room

\* (mutant) submitSong without "if (isHost) return"
submitSongBy_NoHostCheck(me, v, song) == room' = submitSongTxn(room, me, song)

\* submitSong as any client invokes it
submitSongBy(me, v, song) ==
  IF isHost(v, me) THEN room' = room
  ELSE room' = submitSongTxn(room, me, song)

\* submitGuess as any client invokes it
submitGuessBy(me, v, songId, targetPlayerId) ==
  IF isHost(v, me) THEN room' = room
  ELSE room' = submitGuessTxn(room, me, submissionKey(songId, roundIdOf(v)), targetPlayerId)

RolesNext ==
  \/ \E g \in Guests :
       joinRoom(g) /\ SyncViews(g) /\ HostCurrent /\ Awards /\ UNCHANGED scn
  \/ \E g \in Guests :
       GuestInvokes(g) /\ HostCurrent /\ GuestsCurrent /\ Awards /\ UNCHANGED scn
  \/ \E song \in Songs :
       submitSongBy(HostId, hostView, song) /\ HostCurrent /\ GuestsCurrent
       /\ Awards /\ UNCHANGED scn
  \/ \E songId \in Songs, t \in PlayerIds :
       submitGuessBy(HostId, hostView, songId, t) /\ OneGuess
       /\ HostCurrent /\ GuestsCurrent /\ Awards /\ UNCHANGED scn
  \/ \E gen \in GenOutcomes : \E pick \in OnePick(Len(QuestionsOf(gen))) :
       startGame(HostId, hostView, gen, pick) /\ HostCurrent /\ GuestsCurrent
       /\ Awards /\ UNCHANGED scn
  \/ openSubmissions(HostId, hostView) /\ HostCurrent /\ GuestsCurrent
       /\ Awards /\ UNCHANGED scn
  \/ \E g \in Guests, song \in Songs :
       submitSong(g, song) /\ HostCurrent /\ GuestsCurrent /\ Awards /\ UNCHANGED scn
  \/ forceStartListening(HostId, hostView) /\ HostCurrent /\ GuestsCurrent
       /\ Awards /\ UNCHANGED scn
  \/ startVoting(HostId, hostView) /\ HostCurrent /\ GuestsCurrent /\ Awards /\ UNCHANGED scn
  \/ \E g \in Guests, songId \in Songs, t \in PlayerIds :
       submitGuess(g, songId, t) /\ OneGuess
       /\ HostCurrent /\ GuestsCurrent /\ Awards /\ UNCHANGED scn
  \/ finalizeGuesses(HostId, hostView) /\ HostCurrent /\ GuestsCurrent
       /\ Awards /\ UNCHANGED scn
  \/ nextReveal(HostId, hostView) /\ ScoresWithin /\ HostCurrent /\ GuestsCurrent
       /\ Awards /\ UNCHANGED scn
  \/ nextQuestion(HostId, hostView) /\ RoundWithin /\ HostCurrent /\ GuestsCurrent
       /\ Awards /\ UNCHANGED scn
  \/ resetRoomData(HostId, hostView) /\ HostCurrent /\ GuestsCurrent
       /\ Awards /\ UNCHANGED scn

SpecRoles == Init /\ [][RolesNext]_vars

HostEntry(doc, p) == \E i \in 1..Len(doc.players) : doc.players[i].id = p /\ doc.players[i].isHost

\* C16: a step in which a client whose roster entry is not the host's
\* invokes startGame, openSubmissions, forceStartListening, startVoting,
\* finalizeGuesses, nextReveal, nextQuestion or resetRoomData leaves the
\* room document as it was.
C16_HostOpsRefused ==
  [][\A g \in Guests : (~HostEntry(room, g) /\ GuestInvokes(g)) => room' = room]_vars

\* C16, a state where it matters: both guests are in the roster of a room
\* whose every host operation has a phase to act on (the lobby with enough
\* players, and later the scoreboard of the second round).
C16_Witness ==
  /\ room.phase = "SCOREBOARD"
  /\ room.roundId = 1
  /\ \A g \in Guests : guestView[g] # NotJoined /\ InRoster(room, g) /\ ~HostEntry(room, g)

OthersOf(seq, field, p) == SelectSeq(seq, LAMBDA e : e[field] # p)

EntryOf(doc, p) ==
  LET i == CHOOSE i \in 1..Len(doc.players) : doc.players[i].id = p
  IN doc.players[i]

\* what no write of a non-host client P may touch
FrameOf(p) ==
  /\ room'.players = room.players
  /\ room'.roundId = room.roundId
  /\ room'.currentQuestionIndex = room.currentQuestionIndex
  /\ room'.questions = room.questions
  /\ OthersOf(room'.submissions, "playerId", p) = OthersOf(room.submissions, "playerId", p)
  /\ OthersOf(room'.guesses, "voterId", p) = OthersOf(room.guesses, "voterId", p)

\* C17: a submitSong step of player P leaves players, roundId,
\* currentQuestionIndex, questions and the other players' submissions and
\* guesses as they were and changes phase at most to LISTENING; a
\* submitGuess step of P leaves the same and the phase as they were; the
\* write of P's reloaded client leaves phase, roundId and every other
\* player's roster entry as they were.
C17_GuestWritesOwnData ==
  [][\A p \in LateGuests :
       /\ (\E song \in Songs : submitSong(p, song)) =>
             FrameOf(p) /\ (room'.phase = room.phase \/ room'.phase = "LISTENING")
       /\ (\E songId \in Songs, t \in PlayerIds \cup LateGuests : submitGuess(p, songId, t)) =>
             FrameOf(p) /\ room'.phase = room.phase
       /\ tryRejoinUpdate(p) =>
             /\ room'.phase = room.phase
             /\ room'.roundId = room.roundId
             /\ \A q \in (PlayerIds \cup LateGuests) \ {p} :
                  InRoster(room, q) => InRoster(room', q) /\ EntryOf(room', q) = EntryOf(room, q)]_vars

\* C17, the state that refutes it: c's reloaded client has written the
\* roster, and a player whom the host's client shows with points has fewer
\* in the document.
C17_Witness ==
  /\ InRoster(room, "c")
  /\ guestView["c"] = GuestCache(Sanitise(room))
  /\ \E i \in 1..Len(hostView.players) :
       /\ InRoster(room, hostView.players[i].id)
       /\ hostView.players[i].score > ScoreOf(room, hostView.players[i].id)

\* C18: no step takes the room out of FINAL.
C18_FinalIsTerminal == [][room.phase = "FINAL" => room'.phase = "FINAL"]_vars

\* C18, a state from which it is refuted: the game is over, and the client
\* of b, which has not submitted in the last round, still shows the song
\* picker.
C18_Witness ==
  /\ room.phase = "FINAL"
  /\ room.currentQuestionIndex = LastQuestionIndex
  /\ guestView["b"].phase = "SUBMITTING"
  /\ SubmissionCount(room, "b", room.roundId) = 0
  /\ SubmissionCount(room, "a", room.roundId) = 1

\* C19: in every state the host's roster entry has score 0, no submission
\* has the host's id as playerId and no guess has it as voterId.
C19_HostNeverPlays ==
  /\ InRoster(room, HostId) /\ ScoreOf(room, HostId) = 0
  /\ \A i \in 1..Len(room.submissions) : room.submissions[i].playerId # HostId
  /\ \A i \in 1..Len(room.guesses) : room.guesses[i].voterId # HostId

\* C19, a state where it matters: a round has been scored and a guest has
\* received 10 points for a guess.
C19_Witness ==
  /\ room.phase = "SCOREBOARD"
  /\ Len(room.guesses) = 1
  /\ ScoreOf(room, HostId) = 0
  /\ \E g \in Guests : InRoster(room, g) /\ ScoreOf(room, g) = PointsPerGuess

startGameRefused(me, v) ==
  /\ isHost(v, me)
  /\ v.phase = "LOBBY"
  /\ Len(nonHostPlayers(v)) < MinPlayers
  /\ room' = room

LobbyNext ==
  \/ \E g \in Guests :
       joinRoom(g) /\ Joined(g) /\ HostCurrent /\ UNCHANGED <<scn, awards>>
  \/ startGameRefused(HostId, hostView) /\ HostCurrent /\ GuestsLag
       /\ UNCHANGED <<scn, awards>>
  \/ \E gen \in GenOutcomes : \E pick \in AllPicks(Len(QuestionsOf(gen))) :
       startGame(HostId, hostView, gen, pick) /\ HostCurrent /\ GuestsLag
       /\ UNCHANGED <<scn, awards>>

SpecLobby == Init /\ [][LobbyNext]_vars

\* C21: a step in which the host invokes startGame in the lobby changes the
\* room only if the roster has at least 2 non-host players: with fewer the
\* document stays as it is (phase LOBBY included), with 2 or more the
\* document has phase PROMPT, currentQuestionIndex 0 and roundId 0.
C21_StartNeedsTwoPlayers ==
  [][\A gen \in GenOutcomes : \A pick \in AllPicks(Len(QuestionsOf(gen))) :
        (startGame(HostId, hostView, gen, pick) \/ startGameRefused(HostId, hostView))
          => IF Len(nonHostPlayers(room)) >= MinPlayers
             THEN /\ room'.phase = "PROMPT"
                  /\ room'.currentQuestionIndex = 0
                  /\ room'.roundId = 0
             ELSE room' = room /\ room'.phase = "LOBBY"]_vars

\* C21, a state where it matters: the game has started with exactly two
\* guests in the roster and the prompts of the question service.
C21_Witness ==
  /\ room.phase = "PROMPT"
  /\ Len(nonHostPlayers(room)) = MinPlayers
  /\ room.currentQuestionIndex = 0
  /\ room.roundId = 0
  /\ Len(room.questions) = Len(GeneratedQuestions)

ListedTransitions ==
  {<<"LOBBY", "PROMPT">>, <<"PROMPT", "SUBMITTING">>, <<"SUBMITTING", "LISTENING">>,
   <<"LISTENING", "VOTING">>, <<"VOTING", "REVEAL">>, <<"REVEAL", "SCOREBOARD">>,
   <<"SCOREBOARD", "PROMPT">>, <<"SCOREBOARD", "FINAL">>}

\* C22: every step that changes the room's phase takes it along one of the
\* listed transitions, from that transition's source phase.
C22_ListedTransitionsOnly ==
  [][room'.phase # room.phase => <<room.phase, room'.phase>> \in ListedTransitions]_vars

\* C22, the state that refutes it: the room is back in LISTENING with a
\* guess of the round already stored, before any scoring.
C22_Witness ==
  /\ room.phase = "LISTENING"
  /\ awards = 0
  /\ Len(guesses(room)) > 0
  /\ Len(submissions(room)) = Len(nonHostPlayers(room))

\* C23: a nextQuestion step of the host taken while the room is in
\* SCOREBOARD leaves, if currentQuestionIndex is below 9, phase PROMPT with
\* roundId and currentQuestionIndex each one higher, and otherwise phase
\* FINAL with roundId, currentQuestionIndex, players, submissions and
\* guesses as they were.
C23_NextQuestion ==
  [][(nextQuestion(HostId, hostView) /\ room.phase = "SCOREBOARD")
       => IF room.currentQuestionIndex < LastQuestionIndex
          THEN /\ room'.phase = "PROMPT"
               /\ room'.roundId = room.roundId + 1
               /\ room'.currentQuestionIndex = room.currentQuestionIndex + 1
          ELSE /\ room'.phase = "FINAL"
               /\ room'.roundId = room.roundId
               /\ room'.currentQuestionIndex = room.currentQuestionIndex
               /\ room'.players = room.players
               /\ room'.submissions = room.submissions
               /\ room'.guesses = room.guesses]_vars

\* C23, a state where it matters: the tenth round has ended the game, its
\* submissions and its guess still stored.
C23_Witness ==
  /\ room.phase = "FINAL"
  /\ room.roundId = LastQuestionIndex
  /\ room.currentQuestionIndex = LastQuestionIndex
  /\ Len(room.submissions) > 0
  /\ Len(room.guesses) > 0

\* every current-round submission of v not authored by voter has a
\* current-round guess of voter under its composite key
EveryOtherGuessed(v, voter) ==
  \A i \in 1..Len(v.submissions) :
     (v.submissions[i].roundId = v.roundId /\ v.submissions[i].playerId # voter)
       => \E j \in 1..Len(v.guesses) :
            /\ v.guesses[j].roundId = v.roundId
            /\ v.guesses[j].voterId = voter
            /\ v.guesses[j].submissionId
                 = submissionKey(v.submissions[i].song, v.submissions[i].roundId)

\* C24: on every guest's client allGuessesCompleted is true exactly when
\* every current-round submission of another player has a current-round
\* guess of this voter under its composite key; it is true when there is no
\* such submission.
C24_AllGuessesCompleted ==
  \A g \in LateGuests :
     guestView[g] # NotJoined
       => (allGuessesCompleted(guestView[g], g) <=> EveryOtherGuessed(guestView[g], g))

\* C24, the state that refutes it: voting is open on a's screen and the
\* round's only submission is a's own.
C24_Witness ==
  /\ guestView["a"] = Sanitise(room)
  /\ room.phase = "VOTING"
  /\ Len(submissions(room)) = 1
  /\ hasSubmitted(room, "a")
  /\ ~allGuessesCompleted(guestView["a"], "a")

GuessSet(doc) == {guesses(doc)[i] : i \in 1..Len(guesses(doc))}

\* C25: a submitGuess step taken while the room is in REVEAL, SCOREBOARD or
\* FINAL leaves the set of the round's guesses as it was.
C25_NoGuessAfterReveal ==
  [][\A g \in LateGuests, songId \in Songs, t \in LateGuests :
        (submitGuess(g, songId, t) /\ room.phase \in {"REVEAL", "SCOREBOARD", "FINAL"})
          => GuessSet(room') = GuessSet(room)]_vars

\* C25, the state that refutes it: the round has been scored, and the
\* document holds a right guess of a player who has no points.
C25_Witness ==
  /\ room.phase = "SCOREBOARD"
  /\ \E i \in 1..Len(room.players) :
       /\ ~room.players[i].isHost
       /\ C4_Right(room, room.players[i].id) > 0
       /\ room.players[i].score = 0

\* the round component of a composite key
KeyRound(key) == key[1]

\* C26: every guess in the document carries a composite key whose round
\* component is the guess's own roundId tag.
C26_KeyRoundIsTag ==
  \A i \in 1..Len(room.guesses) :
     KeyRound(room.guesses[i].submissionId) = room.guesses[i].roundId

\* C26, the state that refutes it: the room is in its second round and holds
\* a guess tagged with that round whose key was built for the first.
C26_Witness ==
  /\ room.roundId = 1
  /\ \E i \in 1..Len(room.guesses) :
       /\ room.guesses[i].roundId = 1
       /\ KeyRound(room.guesses[i].submissionId) = 0

\* the document a submitSong call leaves, issued as player p by a client
\* whose cached state is cache, against the document doc
submitSongResult(doc, cache, p, song) == submitSongTxn(doc, p, song)

\* the same for a submitGuess call: the key is built from the cached roundId
submitGuessResult(doc, cache, p, songId, targetPlayerId) ==
  submitGuessTxn(doc, p, submissionKey(songId, roundIdOf(cache)), targetPlayerId)

\* C27: two clients with different cached states that issue the same
\* submitSong or submitGuess call (same player id, same song or song id and
\* target) against the same document leave the same document.
C27_ResultFromDocumentAlone ==
  \A c1 \in Guests, c2 \in Guests, p \in Guests :
     /\ (guestView[c1].phase = "SUBMITTING" /\ guestView[c2].phase = "SUBMITTING")
          => \A song \in Songs :
               submitSongResult(room, guestView[c1], p, song)
                 = submitSongResult(room, guestView[c2], p, song)
     /\ (guestView[c1].phase = "VOTING" /\ guestView[c2].phase = "VOTING")
          => \A songId \in Songs, t \in PlayerIds :
               submitGuessResult(room, guestView[c1], p, songId, t)
                 = submitGuessResult(room, guestView[c2], p, songId, t)

\* C27, the state that refutes it: both clients show a voting screen, a's
\* of the first round and b's of the second.
C27_Witness ==
  /\ guestView["a"] = [phase |-> "VOTING", roundId |-> 0]
  /\ guestView["b"] = [phase |-> "VOTING", roundId |-> 1]
  /\ room.phase = "VOTING"
  /\ room.roundId = 1

\* -------------------------------------------------------------- SpecStale
\* SpecLate continued into a second round: the host may open the next
\* question, and the lagging client of c may still show a screen of the
\* first round.
StaleNext ==
  \/ NotifyLaggard /\ UNCHANGED <<scn, awards>>
  \/ \E g \in LateGuests :
       /\ Len(room.players) <= Len(JoinOrder) /\ g = JoinOrder[Len(room.players)]
       /\ room.phase = "LOBBY"
       /\ joinRoom(g) /\ LateJoined(g) /\ HostCurrent /\ UNCHANGED <<scn, awards>>
  \/ \E gen \in LateGen : \E pick \in OnePick(Len(QuestionsOf(gen))) :
       startGame(HostId, hostView, gen, pick) /\ HostCurrent /\ LateViews
       /\ Awards /\ UNCHANGED scn
  \/ openSubmissions(HostId, hostView) /\ HostCurrent /\ LateViews /\ Awards /\ UNCHANGED scn
  \/ \E g \in LateGuests :
       SubmitOffered(g, guestView[g]) /\ submitSong(g, SongOf[g])
       /\ HostCurrent /\ LateViews /\ Awards /\ UNCHANGED scn
  \/ forceStartListening(HostId, hostView) /\ HostCurrent /\ LateViews
       /\ Awards /\ UNCHANGED scn
  \/ startVoting(HostId, hostView) /\ HostCurrent /\ LateViews /\ Awards /\ UNCHANGED scn
  \/ \E g \in LateGuests, songId \in Songs, t \in LateGuests :
       GuessOffered(g, guestView[g], songId, t) /\ submitGuess(g, songId, t)
       /\ OneGuess
       /\ HostCurrent /\ LateViews /\ Awards /\ UNCHANGED scn
  \/ finalizeGuesses(HostId, hostView) /\ HostCurrent /\ LateViews /\ Awards /\ UNCHANGED scn
  \/ nextReveal(HostId, hostView) /\ ScoresWithin /\ HostCurrent /\ LateViews
       /\ Awards /\ UNCHANGED scn
  \/ nextQuestion(HostId, hostView) /\ RoundWithin /\ HostCurrent /\ LateViews
       /\ Awards /\ UNCHANGED scn

SpecStale == LateInit /\ [][StaleNext]_vars

SubmissionSet(doc) == {submissions(doc)[i] : i \in 1..Len(submissions(doc))}

\* C28: a submitSong or submitGuess step of a client whose screen shows a
\* round other than the document's adds nothing to the document's
\* current-round submissions and guesses.
C28_StaleRoundNotCounted ==
  [][\A g \in LateGuests :
       guestView[g].roundId # room.roundId =>
         /\ (SubmitOffered(g, guestView[g]) /\ submitSong(g, SongOf[g]))
              => SubmissionSet(room') \subseteq SubmissionSet(room)
         /\ (\E songId \in Songs, t \in LateGuests :
               GuessOffered(g, guestView[g], songId, t) /\ submitGuess(g, songId, t))
              => GuessSet(room') \subseteq GuessSet(room)]_vars

\* C28, the state that refutes it: c's client still shows the song picker
\* of the first round, and the second round's submissions hold one of c.
C28_Witness ==
  /\ room.roundId = 1
  /\ guestView["c"].phase = "SUBMITTING"
  /\ guestView["c"].roundId = 0
  /\ SubmissionCount(room, "c", 1) = 1

Max(x, y) == IF x >= y THEN x ELSE y

ListFields == {"players", "submissions", "guesses", "questions"}

\* snapshot.val(): the store keeps no empty list, the field is absent
Stored(doc) ==
  [f \in {x \in DOMAIN doc : x \notin ListFields \/ Len(doc[x]) > 0} |-> doc[f]]

\* (mutant) the callback merges the snapshot over the previous state and
\* nothing more
onValue_Spread(prev, data) ==
  [f \in DOMAIN prev \cup DOMAIN data |-> IF f \in DOMAIN data THEN data[f] ELSE prev[f]]

\* setGameState(prev => ({...prev, ...data, players, submissions, guesses,
\* questions, roundId})) with the sanitised lists
onValue(prev, data) ==
  LET listOf(f) == IF f \in DOMAIN data THEN data[f] ELSE <<>>
      safeSubmissions == SelectSeq(listOf("submissions"),
                                   LAMBDA s : s.playerId # "" /\ s.song # "")
      safeGuesses == SelectSeq(listOf("guesses"),
                       LAMBDA g : g.voterId # "" /\ g.submissionId # <<>> /\ g.targetPlayerId # "")
      safeQuestions == IF Len(listOf("questions")) > 0 THEN listOf("questions")
                       ELSE INITIAL_QUESTIONS
  IN [f \in DOMAIN prev \cup DOMAIN data \cup ListFields \cup {"roundId"} |->
        IF f = "players" THEN listOf("players")
        ELSE IF f = "submissions" THEN safeSubmissions
        ELSE IF f = "guesses" THEN safeGuesses
        ELSE IF f = "questions" THEN safeQuestions
        ELSE IF f = "roundId"
             THEN (IF "roundId" \in DOMAIN data THEN data.roundId ELSE prev.roundId)
        ELSE IF f \in DOMAIN data THEN data[f] ELSE prev[f]]

\* the local states of the clients that hold a room
LocalStates == {hostView} \cup {guestView[g] : g \in {x \in LateGuests : guestView[x] # NotJoined}}

\* C30: whatever a client's local state was, processing the notification of
\* the stored document leaves the same local state, the snapshot with its
\* lists sanitised, and every local submission and guess is an entry of the
\* snapshot; the laggard's client ends in that state when it is notified.
C30_LocalStateFromSnapshot ==
  /\ [](\A prev \in LocalStates :
          /\ onValue(prev, Stored(room)) = Sanitise(room)
          /\ \A i \in 1..Len(onValue(prev, Stored(room)).submissions) :
               Holds(room.submissions, onValue(prev, Stored(room)).submissions[i])
          /\ \A i \in 1..Len(onValue(prev, Stored(room)).guesses) :
               Holds(room.guesses, onValue(prev, Stored(room)).guesses[i]))
  /\ [][NotifyLaggard =>
          guestView'[Laggard] = onValue(guestView[Laggard], Stored(room))]_vars

\* C30, a state where it matters: the second round has opened with empty
\* lists in the document while c's client still holds a submission and a
\* guess of the first.
C30_Witness ==
  /\ guestView["c"] # NotJoined
  /\ room.roundId = 1
  /\ room.submissions = <<>>
  /\ room.guesses = <<>>
  /\ Len(guestView["c"].submissions) > 0
  /\ Len(guestView["c"].guesses) > 0

\* ------------------------------------------------------------- SpecConfig
\* Before the room exists. Each client's local state carries, next to its
\* gameState, whether its build has a store (db) and the room id it holds;
\* the store has no room until a configured client creates it.
NoRoom == [exists |-> FALSE]

RoomCode == "ROOM"

\* a client's gameState with its db and roomId
Local(state, db, roomId) ==
  [f \in DOMAIN state \cup {"db", "roomId"} |->
     IF f = "db" THEN db ELSE IF f = "roomId" THEN roomId ELSE state[f]]

\* useState(...) of gameState
FreshState == [initialGame EXCEPT !.players = <<>>]

ConfigInit ==
  /\ room = NoRoom
  /\ \E db \in BOOLEAN : hostView = Local(FreshState, db, "")
  /\ guestView \in [Guests -> {Local(FreshState, db, "") : db \in BOOLEAN}]
  /\ scn = 0
  /\ awards = 0

\* (mutant) createRoom without "if (!db)"
createRoomBy_NoDbCheck(v) ==
  /\ v.roomId = ""
  /\ room' = initialGame
  /\ hostView' = Local(initialGame, v.db, RoomCode)

\* createRoom, pressed on the landing screen of the client whose state is v
createRoomBy(v) ==
  /\ v.roomId = ""
  /\ IF ~v.db
     THEN room' = room /\ hostView' = hostView
     ELSE room' = initialGame /\ hostView' = Local(initialGame, v.db, RoomCode)

\* joinRoom with the room code and a name typed in
joinRoomBy(g) ==
  /\ guestView[g].roomId = ""
  /\ IF ~guestView[g].db \/ room = NoRoom
     THEN room' = room /\ guestView' = guestView /\ hostView' = hostView
     ELSE LET newPlayer == [id |-> g, score |-> 0, isHost |-> FALSE]
          IN /\ room' = IF InRoster(room, g) THEN room
                        ELSE [room EXCEPT !.players = Append(@, newPlayer)]
             /\ guestView' = [x \in Guests |->
                                IF x = g \/ guestView[x].roomId # ""
                                THEN Local(Sanitise(room'), guestView[x].db, RoomCode)
                                ELSE guestView[x]]
             /\ hostView' = Local(Sanitise(room'), hostView.db, RoomCode)

ConfigNext ==
  \/ createRoomBy(hostView) /\ room = NoRoom /\ UNCHANGED <<guestView, scn, awards>>
  \/ \E g \in Guests : joinRoomBy(g) /\ UNCHANGED <<scn, awards>>
  \/ \E gen \in GenOutcomes : \E pick \in AllPicks(Len(QuestionsOf(gen))) :
       /\ hostView.roomId # ""
       /\ startGame(HostId, hostView, gen, pick)
       /\ hostView' = Local(Sanitise(room'), hostView.db, RoomCode)
       /\ guestView' = [x \in Guests |->
                          IF guestView[x].roomId # ""
                          THEN Local(Sanitise(room'), guestView[x].db, RoomCode)
                          ELSE guestView[x]]
       /\ UNCHANGED <<scn, awards>>

SpecConfig == ConfigInit /\ [][ConfigNext]_vars

\* C31: a createRoom or joinRoom step of a client without a store writes no
\* room document and leaves the client's roomId, players and phase as they
\* were.
C31_NoStoreNoWrite ==
  [][/\ (createRoomBy(hostView) /\ ~hostView.db) =>
          /\ room' = room
          /\ hostView'.roomId = hostView.roomId
          /\ hostView'.players = hostView.players
          /\ hostView'.phase = hostView.phase
     /\ \A g \in Guests : (joinRoomBy(g) /\ ~guestView[g].db) =>
          /\ room' = room
          /\ guestView'[g].roomId = guestView[g].roomId
          /\ guestView'[g].players = guestView[g].players
          /\ guestView'[g].phase = guestView[g].phase]_vars

\* C31, a state where it matters: the room exists with a in it, and the
\* client of b, which has no store, is still on the landing screen.
C31_Witness ==
  /\ room # NoRoom
  /\ InRoster(room, "a")
  /\ ~guestView["b"].db
  /\ guestView["b"].roomId = ""
  /\ guestView["b"].players = <<>>

\* --------------------------------------------------------------- SpecHost
\* The host's writes are computed from its cache, and the cache follows the
\* room only when a notification is delivered: every write leaves the
\* host's view as it was. The guests' views are current.
HostNext ==
  \/ NotifyHost /\ UNCHANGED <<scn, awards>>
  \/ \E g \in Guests :
       /\ room.phase = "LOBBY"
       /\ joinRoom(g) /\ Joined(g) /\ HostLags /\ UNCHANGED <<scn, awards>>
  \/ \E gen \in GenOutcomes : \E pick \in OnePick(Len(QuestionsOf(gen))) :
       startGame(HostId, hostView, gen, pick) /\ HostLags /\ GuestsCurrent
       /\ Awards /\ UNCHANGED scn
  \/ openSubmissions(HostId, hostView) /\ HostLags /\ GuestsCurrent /\ Awards /\ UNCHANGED scn
  \/ \E g \in Guests, song \in OneSong :
       submitSong(g, song) /\ HostLags /\ GuestsCurrent /\ Awards /\ UNCHANGED scn
  \/ startVoting(HostId, hostView) /\ HostLags /\ GuestsCurrent /\ Awards /\ UNCHANGED scn
  \/ \E g \in Guests, songId \in OneSong, t \in Guests :
       submitGuess(g, songId, t) /\ OneGuess
       /\ HostLags /\ GuestsCurrent /\ Awards /\ UNCHANGED scn
  \/ finalizeGuesses(HostId, hostView) /\ HostLags /\ GuestsCurrent /\ Awards /\ UNCHANGED scn
  \/ nextReveal(HostId, hostView) /\ ScoresWithin /\ HostLags /\ GuestsCurrent
       /\ Awards /\ UNCHANGED scn
  \/ nextQuestion(HostId, hostView) /\ RoundWithin /\ HostLags /\ GuestsCurrent
       /\ Awards /\ UNCHANGED scn
  \/ resetRoomData(HostId, hostView) /\ HostLags /\ GuestsCurrent /\ Awards /\ UNCHANGED scn

SpecHost == Init /\ [][HostNext]_vars

\* C32: in every reachable state the room's roundId equals its
\* currentQuestionIndex.
C32_RoundIdIsQuestionIndex == room.roundId = room.currentQuestionIndex

\* C32, a state where it matters: the second round is open for submissions.
C32_Witness ==
  /\ room.phase = "SUBMITTING"
  /\ room.roundId = 1

\* C33: within the round, distinct submissions have distinct composite keys,
\* and the key-to-owner map of nextReveal gives every submission of the
\* round its own author.
C33_KeysNameTheirAuthor ==
  LET subs == submissions(room)
      keyOf(i) == submissionKey(subs[i].song, roundIdOf(room))
  IN /\ \A i, j \in 1..Len(subs) : i # j => keyOf(i) # keyOf(j)
     /\ \A i \in 1..Len(subs) : ownerByKey(room, keyOf(i)) = subs[i].playerId

\* C33, a state where it matters: two players have submitted in the round
\* and the reveal is on.
C33_Witness ==
  /\ room.phase = "REVEAL"
  /\ Len(submissions(room)) = 2
  /\ submissions(room)[1].playerId # submissions(room)[2].playerId

\* C34: a step raises the score of a non-host player by at most 10 times
\* the number of submissions of the round authored by other players (the
\* points of a round are at least those of its scoring step).
C34_GainWithinOthersSubmissions ==
  [][\A i \in 1..Len(room.players) :
       (i <= Len(room'.players) /\ ~room.players[i].isHost) =>
         room'.players[i].score - room.players[i].score
           <= PointsPerGuess * Len(mysterySubmissions(room, room.players[i].id))]_vars

\* C34, a state where it matters: a has been given the points of a right
\* guess in a round with one submission of another player.
C34_Witness ==
  /\ room.phase = "SCOREBOARD"
  /\ Len(mysterySubmissions(room, "a")) = 1
  /\ \E i \in 1..Len(room.players) :
       room.players[i].id = "a" /\ room.players[i].score = PointsPerGuess

\* the per-voter completion predicate: p has a guess of the round for the
\* composite key of every submission of the round that p did not author
GuessedAllOthers(v, p) ==
  \A i \in 1..Len(mysterySubmissions(v, p)) :
     \E j \in 1..Len(myGuesses(v, p)) :
        myGuesses(v, p)[j].submissionId
          = submissionKey(mysterySubmissions(v, p)[i].song, roundIdOf(v))

\* C35: on the host's voting screen, byPlayer[P].ready is true exactly when
\* P has guessed every submission of the round authored by another player,
\* and allReady is the conjunction of ready over the non-host players.
C35_ReadyIsCompletion ==
  hostView.phase = "VOTING" =>
    /\ \A i \in 1..Len(nonHostPlayers(hostView)) :
         guessProgress(hostView).byPlayer[i].ready
           <=> GuessedAllOthers(hostView, nonHostPlayers(hostView)[i].id)
    /\ guessProgress(hostView).allReady
         <=> \A i \in 1..Len(nonHostPlayers(hostView)) :
               GuessedAllOthers(hostView, nonHostPlayers(hostView)[i].id)

\* C35, a state where it matters: the voting is on, every guest has
\* submitted and b's progress entry is ready.
C35_Witness ==
  /\ hostView.phase = "VOTING"
  /\ Len(submissions(hostView)) = Len(nonHostPlayers(hostView))
  /\ \E i \in 1..Len(nonHostPlayers(hostView)) :
       /\ nonHostPlayers(hostView)[i].id = "b"
       /\ guessProgress(hostView).byPlayer[i].ready

\* ------------------------------------------------------------- SpecShared
\* SpecRoster with a second tab d in the browser of c: the two share the
\* local storage, so d joins and rejoins under the player id of c once c
\* has stored it.
Tabs == LateGuests \cup {"d"}

StoredId == [t \in Tabs |-> IF t = "d" THEN "c" ELSE t]

HasStoredId(t) == guestView[StoredId[t]] # NotJoined

SharedInit ==
  /\ room = initialGame
  /\ hostView = initialGame
  /\ guestView = [t \in Tabs |-> NotJoined]
  /\ scn = 0
  /\ awards = 0

\* (mutant) the transaction pushes the player without looking for the id
joinRoomTxn_NoCheck(doc, newPlayerId) ==
  [doc EXCEPT !.players = Append(@, [id |-> newPlayerId, score |-> 0, isHost |-> FALSE])]

\* body of the joinRoom transaction
joinRoomTxn(doc, newPlayerId) ==
  IF InRoster(doc, newPlayerId) THEN doc
  ELSE [doc EXCEPT !.players = Append(@, [id |-> newPlayerId, score |-> 0, isHost |-> FALSE])]

joinRoomTab(t) ==
  /\ guestView[t] = NotJoined
  /\ t # StoredId[t] => HasStoredId(t)
  /\ room' = joinRoomTxn(room, StoredId[t])

tryRejoinGetTab(t) ==
  /\ HasStoredId(t)
  /\ guestView[t].phase # "REJOIN"
  /\ room' = room
  /\ guestView' = [guestView EXCEPT ![t] =
                     IF InRoster(room, StoredId[t]) THEN GuestCache(Sanitise(room))
                     ELSE Rejoining(room.players)]

tryRejoinUpdateTab(t) ==
  /\ guestView[t].phase = "REJOIN"
  /\ LET rejoinedPlayer == [id |-> StoredId[t], score |-> 0, isHost |-> FALSE]
     IN room' = [room EXCEPT !.players = Append(guestView[t].players, rejoinedPlayer)]

SharedViews ==
  guestView' = [x \in Tabs |->
                  IF guestView[x] = NotJoined \/ guestView[x].phase = "REJOIN"
                  THEN guestView[x]
                  ELSE GuestCache(Sanitise(room'))]

SharedJoined(t) ==
  guestView' = [x \in Tabs |->
                  IF x = t THEN GuestCache(Sanitise(room'))
                  ELSE IF guestView[x] = NotJoined \/ guestView[x].phase = "REJOIN"
                  THEN guestView[x]
                  ELSE GuestCache(Sanitise(room'))]

SharedNext ==
  \/ NotifyHost /\ UNCHANGED <<scn, awards>>
  \/ \E t \in Tabs :
       /\ t = StoredId[t] =>
            Len(room.players) <= Len(JoinOrder) /\ t = JoinOrder[Len(room.players)]
       /\ joinRoomTab(t) /\ SharedJoined(t) /\ HostMayLag /\ UNCHANGED <<scn, awards>>
  \/ \E t \in Tabs : tryRejoinGetTab(t) /\ UNCHANGED <<hostView, scn, awards>>
  \/ \E t \in Tabs :
       tryRejoinUpdateTab(t) /\ SharedJoined(t) /\ HostMayLag /\ Awards /\ UNCHANGED scn
  \/ \E gen \in LateGen : \E pick \in OnePick(Len(QuestionsOf(gen))) :
       startGame(HostId, hostView, gen, pick) /\ HostCurrent /\ SharedViews
       /\ Awards /\ UNCHANGED scn
  \/ openSubmissions(HostId, hostView) /\ HostCurrent /\ SharedViews /\ Awards /\ UNCHANGED scn
  \/ \E g \in LateGuests :
       SubmitOffered(g, Sanitise(room)) /\ submitSong(g, SongOf[g])
       /\ HostCurrent /\ SharedViews /\ Awards /\ UNCHANGED scn
  \/ forceStartListening(HostId, hostView) /\ HostCurrent /\ SharedViews
       /\ Awards /\ UNCHANGED scn
  \/ startVoting(HostId, hostView) /\ HostCurrent /\ SharedViews /\ Awards /\ UNCHANGED scn
  \/ finalizeGuesses(HostId, hostView) /\ HostCurrent /\ SharedViews /\ Awards /\ UNCHANGED scn
  \/ nextReveal(HostId, hostView) /\ HostCurrent /\ SharedViews /\ Awards /\ UNCHANGED scn

SpecShared == SharedInit /\ [][SharedNext]_vars

\* C36: each player id appears at most once in the roster.
C36_UniqueIds ==
  \A i, j \in 1..Len(room.players) :
     i # j => room.players[i].id # room.players[j].id

\* C36, a state where it matters: tab c has read a roster without its id
\* and is about to write it back with the id appended, while the id is in
\* the stored roster again, put there by tab d.
C36_Witness ==
  /\ guestView["c"].phase = "REJOIN"
  /\ guestView["d"] # NotJoined
  /\ guestView["d"].phase # "REJOIN"
  /\ InRoster(room, "c")

\* --------------------------------------------------------------- SpecFair
\* Whole games under fairness. The room starts in LOBBY with a and b in the
\* roster; the host's view is current and b's client may lag, as in
\* SpecGame. scn counts the entries into SCOREBOARD since the room last
\* entered LOBBY or PROMPT. A guess is offered while no points have been
\* given, which keeps the scores within the bound without ever holding
\* back the host.
Visits ==
  scn' = IF room'.phase \in {"LOBBY", "PROMPT"} THEN 0
         ELSE IF room.phase # "SCOREBOARD" /\ room'.phase = "SCOREBOARD" THEN scn + 1
         ELSE scn

FairInit ==
  /\ room = [initialGame EXCEPT !.players =
               <<host, [id |-> "a", score |-> 0, isHost |-> FALSE],
                       [id |-> "b", score |-> 0, isHost |-> FALSE]>>]
  /\ hostView = room
  /\ guestView = [g \in Guests |-> GuestCache(room)]
  /\ scn = 0
  /\ awards = 0

GuessWithin == \A i \in 1..Len(room.players) :
                 room.players[i].score < MaxPoints * PointsPerGuess

FairNotify == NotifyGuest("b") /\ UNCHANGED <<scn, awards>>

FairStart ==
  \E gen \in LateGen : \E pick \in OnePick(Len(QuestionsOf(gen))) :
     startGame(HostId, hostView, gen, pick) /\ HostCurrent /\ GameViews /\ Awards /\ Visits

FairOpen == openSubmissions(HostId, hostView) /\ HostCurrent /\ GameViews /\ Awards /\ Visits

FairSubmit(g) ==
  \E song \in OneSong :
     submitSong(g, song) /\ HostCurrent /\ GameViews /\ Awards /\ Visits

FairForce ==
  forceStartListening(HostId, hostView) /\ HostCurrent /\ GameViews /\ Awards /\ Visits

FairVoting == startVoting(HostId, hostView) /\ HostCurrent /\ GameViews /\ Awards /\ Visits

FairGuess(g) ==
  \E songId \in OneSong, t \in Guests :
     /\ GuessWithin
     /\ submitGuess(g, songId, t) /\ OneGuess
     /\ HostCurrent /\ GameViews /\ Awards /\ Visits

FairFinalize ==
  finalizeGuesses(HostId, hostView) /\ HostCurrent /\ GameViews /\ Awards /\ Visits

FairReveal == nextReveal(HostId, hostView) /\ HostCurrent /\ GameViews /\ Awards /\ Visits

FairQuestion == nextQuestion(HostId, hostView) /\ HostCurrent /\ GameViews /\ Awards /\ Visits

FairNext ==
  \/ FairNotify
  \/ FairStart
  \/ FairOpen
  \/ \E g \in Guests : FairSubmit(g)
  \/ FairForce
  \/ FairVoting
  \/ \E g \in Guests : FairGuess(g)
  \/ FairFinalize
  \/ FairReveal
  \/ FairQuestion

\* the host presses the control of the phase it sees, every guest acts on
\* the screen it sees, and notifications are delivered
Fairness ==
  /\ WF_vars(FairNotify)
  /\ WF_vars(FairStart)
  /\ WF_vars(FairOpen)
  /\ \A g \in Guests : WF_vars(FairSubmit(g))
  /\ WF_vars(FairVoting)
  /\ \A g \in Guests : WF_vars(FairGuess(g))
  /\ WF_vars(FairFinalize)
  /\ WF_vars(FairReveal)
  /\ WF_vars(FairQuestion)

SpecFair == FairInit /\ [][FairNext]_vars /\ Fairness

\* C37, its first half: the room eventually reaches FINAL.
C37_ReachesFinal == <>(room.phase = "FINAL")

\* C37: the room eventually reaches FINAL, and it does so after exactly ten
\* rounds: FINAL is entered at roundId 9, and every round enters SCOREBOARD
\* once.
C37_FinalAfterTenRounds ==
  /\ <>(room.phase = "FINAL")
  /\ [](room.phase = "FINAL" => room.roundId = LastQuestionIndex)
  /\ [](scn <= 1)

\* C37, a state where it matters: the tenth round has been scored once and
\* the room is in FINAL.
C37_Witness ==
  /\ room.phase = "FINAL"
  /\ room.roundId = LastQuestionIndex
  /\ scn = 1

\* C38: each submission's playerId, and each guess's voterId and
\* targetPlayerId, is the id of a player in the roster.
C38_EntriesReferToRoster ==
  /\ \A i \in 1..Len(room.submissions) : InRoster(room, room.submissions[i].playerId)
  /\ \A j \in 1..Len(room.guesses) :
       /\ InRoster(room, room.guesses[j].voterId)
       /\ InRoster(room, room.guesses[j].targetPlayerId)

\* C38, a state where it matters: the three guests are in the roster, each
\* has submitted and a guess has been made.
C38_Witness ==
  /\ Len(room.players) = 4
  /\ Len(room.submissions) = 3
  /\ Len(room.guesses) = 1

\* ------------------------------------------------------------- SpecSearch
\* The song search of a client. In this specification guestView[g] is the
\* client's search state: its own and the host's music token, the query,
\* the result list and the error line. A token is absent (null), accepted
\* by the music service, or expired (answered with status 401).
null == "null"

TokenKinds == {null, "valid", "expired"}

\* an empty query, one that matches a mock song, one that matches none
Queries == {"", "queen", "zzz"}

MOCK_SONGS == <<[id |-> "2", text |-> "queen"]>>

ExpiredMessage == "Spotify token expired. Reconnect in Settings."

\* what the fetch gives: status 401, a track list (empty or not), an answer
\* without tracks, a network failure
SpotifyResponses == {"401", "noTracks", "oneTrack", "other", "throw"}

Items(response) == IF response = "oneTrack" THEN <<"t1">> ELSE <<>>

\* what searchMusicAI gives
AiOutcomes == {<<>>, <<"ai-0">>}

tokenToUse(st) == IF st.spotifyToken # null THEN st.spotifyToken ELSE st.hostToken

ResponsesFor(token) ==
  IF token = "expired" THEN {"401"} ELSE SpotifyResponses \ {"401"}

MockMatches(query) ==
  LET hits == SelectSeq(MOCK_SONGS, LAMBDA s : s.text = query)
  IN [i \in 1..Len(hits) |-> hits[i].id]

handleSearch(st, response, aiMatched) ==
  IF st.searchQuery = "" THEN st
  ELSE LET cleared == [st EXCEPT !.searchError = null]
       IN IF tokenToUse(st) # null /\ response = "401"
          THEN [cleared EXCEPT !.searchError = ExpiredMessage]
          ELSE IF tokenToUse(st) # null /\ response \in {"noTracks", "oneTrack"}
          THEN [cleared EXCEPT !.searchResults = Items(response)]
          ELSE [cleared EXCEPT !.searchResults =
                  IF Len(aiMatched) > 0 THEN aiMatched
                  ELSE MockMatches(st.searchQuery)]

SearchInit ==
  /\ room = initialGame
  /\ hostView = initialGame
  /\ guestView = [g \in Guests |->
                    [spotifyToken |-> null, hostToken |-> null, searchQuery |-> "",
                     searchResults |-> <<>>, searchError |-> null]]
  /\ scn = 0
  /\ awards = 0

setSearchQuery(g, q) ==
  /\ guestView' = [guestView EXCEPT ![g].searchQuery = q]
  /\ UNCHANGED <<room, hostView, scn, awards>>

\* connecting or disconnecting the music account, or its token running out
setSpotifyToken(g, token) ==
  /\ guestView' = [guestView EXCEPT ![g].spotifyToken = token]
  /\ UNCHANGED <<room, hostView, scn, awards>>

\* the host's token, taken from the room's snapshot
setHostToken(g, token) ==
  /\ token # null
  /\ guestView' = [guestView EXCEPT ![g].hostToken = token]
  /\ UNCHANGED <<room, hostView, scn, awards>>

handleSearchBy(g, response, aiMatched) ==
  /\ response \in ResponsesFor(tokenToUse(guestView[g]))
  /\ guestView' = [guestView EXCEPT ![g] = handleSearch(guestView[g], response, aiMatched)]
  /\ UNCHANGED <<room, hostView, scn, awards>>

SearchNext ==
  \/ \E g \in Guests, q \in Queries : setSearchQuery(g, q)
  \/ \E g \in Guests, token \in TokenKinds : setSpotifyToken(g, token)
  \/ \E g \in Guests, token \in TokenKinds : setHostToken(g, token)
  \/ \E g \in Guests, response \in SpotifyResponses, aiMatched \in AiOutcomes :
       handleSearchBy(g, response, aiMatched)

SpecSearch == SearchInit /\ [][SearchNext]_vars

\* C39: a search made with a query while the credential is missing or
\* expired leaves a non-null searchError, which tells it from a search
\* that succeeded without results (searchError null, empty result list).
C39_CredentialErrorSurfaced ==
  [][\A g \in Guests, response \in SpotifyResponses, aiMatched \in AiOutcomes :
       (/\ handleSearchBy(g, response, aiMatched)
        /\ guestView[g].searchQuery # ""
        /\ tokenToUse(guestView[g]) \in {null, "expired"})
       => guestView'[g].searchError # null]_vars

\* C39, a state where it matters: a client whose token has expired has
\* searched and shows the error line.
C39_Witness ==
  /\ tokenToUse(guestView["a"]) = "expired"
  /\ guestView["a"].searchQuery # ""
  /\ guestView["a"].searchError = ExpiredMessage

====
